---- MODULE Spec2Model ----
(***************************************************************************)
(* SocialWise speech gateway: one ASR or TTS exchange with the remote      *)
(* iFlytek endpoint over one WebSocket connection, in the three variants   *)
(* of the source tree, together with the HTTP handlers that call them.     *)
(*                                                                         *)
(*   backend/services/speech_service.py      SpeechService                 *)
(*   backend/app/services/speech_service.py  SpeechService (app)           *)
(*   backend/services/voice_service.py       IFlytekVoiceService           *)
(*   backend/api/asr.py, backend/api/tts.py, backend/app/main.py           *)
(*                                                                         *)
(* A behaviour is one call of one entry point.  The remote server and the  *)
(* transport are the environment: at every receive the environment picks   *)
(* the next server message, a close of the connection or (where the code   *)
(* waits with a timeout) silence.                                          *)
(***************************************************************************)
EXTENDS Integers, Sequences, FiniteSets, TLC

(***************************************************************************)
(* Bounds of the model.                                                    *)
(***************************************************************************)
\* audio buffers hold at most MaxChunks chunks of chunk_size bytes
MaxChunks == 3
\* the server sends at most MaxMsgs messages on one connection
MaxMsgs == 3

(***************************************************************************)
(* Program constants.                                                      *)
(***************************************************************************)
\* speech_service.py:154  chunk_size = 1280
chunk_size == 1280
\* wire values of data.status in a request frame (speech_service.py:158-160)
STATUS_START == 0
STATUS_CONTINUE == 1
STATUS_END == 2
\* the completion marker of a server message (speech_service.py:130)
SERVER_DONE == 2

(***************************************************************************)
(* Bytes, text and base64.                                                 *)
(***************************************************************************)
\* a byte buffer is a sequence of 0..255; a text is a sequence of characters
Chars == {" ", "a", "b"}

\* base64.b64encode: every 3 bytes give 4 symbols 0..63, the last group is
\* padded with '=' (symbol 64)
B64Encode(b) ==
    LET n == Len(b)
        g == (n + 2) \div 3
        byte(k) == IF k <= n THEN b[k] ELSE 0
    IN  [k \in 1..(4 * g) |->
            LET grp == (k - 1) \div 4
                pos == (k - 1) % 4
                b0  == byte(3 * grp + 1)
                b1  == byte(3 * grp + 2)
                b2  == byte(3 * grp + 3)
            IN  CASE pos = 0 -> b0 \div 4
                  [] pos = 1 -> (b0 % 4) * 16 + (b1 \div 16)
                  [] pos = 2 -> IF 3 * grp + 2 > n THEN 64
                                ELSE (b1 % 16) * 4 + (b2 \div 64)
                  [] pos = 3 -> IF 3 * grp + 3 > n THEN 64
                                ELSE b2 % 64]

\* base64.b64decode of a well-formed base64 text: every 4 symbols give 3
\* bytes, less one byte for every '=' at the end
B64Decode(s) ==
    LET m == Len(s)
        pads == (IF m >= 1 /\ s[m] = 64 THEN 1 ELSE 0)
              + (IF m >= 2 /\ s[m - 1] = 64 THEN 1 ELSE 0)
    IN  [k \in 1..(3 * (m \div 4) - pads) |->
            LET q == 4 * ((k - 1) \div 3)
            IN  CASE k % 3 = 1 -> s[q + 1] * 4 + (s[q + 2] \div 16)
                  [] k % 3 = 2 -> (s[q + 2] % 16) * 16 + (s[q + 3] \div 4)
                  [] k % 3 = 0 -> (s[q + 3] % 4) * 64 + s[q + 4]]

\* audio_data[i:j] of Python: bytes i .. j-1 (0-based), cut at the end
Slice(b, lo, hi) ==
    LET h == IF hi > Len(b) THEN Len(b) ELSE hi
    IN  [k \in 1..(IF h > lo THEN h - lo ELSE 0) |-> b[lo + k]]

RECURSIVE LStrip(_)
LStrip(s) == IF s # << >> /\ Head(s) = " " THEN LStrip(Tail(s)) ELSE s

RECURSIVE RStrip(_)
RStrip(s) ==
    IF s # << >> /\ s[Len(s)] = " " THEN RStrip(SubSeq(s, 1, Len(s) - 1)) ELSE s

\* str.strip(): leading and trailing whitespace removed
strip(s) == RStrip(LStrip(s))

\* the concatenation of a sequence of sequences, in order
RECURSIVE Flatten(_)
Flatten(ss) == IF ss = << >> THEN << >> ELSE Head(ss) \o Flatten(Tail(ss))

(***************************************************************************)
(* Entry points and inputs.                                                *)
(***************************************************************************)
\* backend/services/speech_service.py
SvcStt       == "SpeechService.speech_to_text"
SvcStreamStt == "SpeechService.stream_speech_to_text"
SvcTts       == "SpeechService.text_to_speech"
SvcStreamTts == "SpeechService.stream_text_to_speech"
\* backend/app/services/speech_service.py
AppAsr       == "app.SpeechService.recognize_speech"
AppTts       == "app.SpeechService.synthesize_speech"
\* backend/services/voice_service.py
VoiceStt     == "IFlytekVoiceService.speech_to_text"
VoiceTts     == "IFlytekVoiceService.text_to_speech"

AsrOps == {SvcStt, SvcStreamStt, AppAsr, VoiceStt}
TtsOps == {SvcTts, SvcStreamTts, AppTts, VoiceTts}
OneShotAsrOps == {SvcStt, AppAsr, VoiceStt}
Ops == AsrOps \cup TtsOps

\* the entry points an HTTP handler of the source calls
HttpOps == {SvcStt, SvcStreamStt, SvcTts, SvcStreamTts, AppAsr, AppTts}
\* the callers of an entry point: its HTTP handler, or a direct call with
\* arguments of the declared types (voice_service has no handler; the handler
\* of recognize_speech passes bytes where a base64 str is declared)
Callers(o) ==
    CASE o = AppAsr   -> {"http", "direct"}
      [] o = VoiceStt -> {"direct"}
      [] o = VoiceTts -> {"direct"}
      [] OTHER        -> {"http"}

\* the raw audio uploaded: n bytes, byte k differs from chunk to chunk
AudioBuf(n) == [k \in 1..n |-> (k * 7) % 251]

\* buffer lengths: empty, one byte, one byte over a chunk, and for every
\* number of chunks up to MaxChunks a partly filled and a full last chunk
StreamLens ==
    {0, 1, chunk_size + 1}
    \cup {k * chunk_size + d : k \in 0..(MaxChunks - 1), d \in {440, chunk_size}}

\* the buffers sent in one frame by the one-shot entry points
OneShotLens == {0, 2, 4}

AudioInputs(o) ==
    CASE o = SvcStreamStt     -> {AudioBuf(n) : n \in StreamLens}
      [] o \in OneShotAsrOps  -> {AudioBuf(n) : n \in OneShotLens}
      [] OTHER                -> {<< >>}

\* the text to synthesize
TextInputs(o) ==
    IF o \in TtsOps THEN {<< >>, <<" ">>, <<"a", "b">>} ELSE {<< >>}

\* UploadFile.content_type, which only api/asr.py speech_to_text looks at
ContentTypes(o, c) ==
    IF o = SvcStt /\ c = "http" THEN {"audio/wav", "text/plain"} ELSE {"audio/wav"}

\* text.encode('utf-8') on the characters of the model
Utf8(t) == [k \in 1..Len(t) |-> CASE t[k] = " " -> 32 [] t[k] = "a" -> 97 [] t[k] = "b" -> 98]

(***************************************************************************)
(* Server messages (the response envelope) and transport events.           *)
(***************************************************************************)
\* valid: the payload is JSON; hasData/hasResult/hasAudio: the keys present;
\* ws: the words data.result.ws[].cw[].w in order; audio: data.audio (base64);
\* pcm: the bytes the server encoded into data.audio (not on the wire);
\* wconf: the confidence number of each word (cw[].wp or cw[].sc), in the
\* shape of ws, in ten-thousandths
Msg(valid, code, message, hasData, hasResult, ws, wconf, hasAudio, pcm, st) ==
    [valid |-> valid, code |-> code, message |-> message, hasData |-> hasData,
     hasResult |-> hasResult, ws |-> ws, wconf |-> wconf, hasAudio |-> hasAudio,
     audio |-> B64Encode(pcm), pcm |-> pcm, status |-> st]

\* word lists of one result message; a word carries its own whitespace
WordLists == { << <<" ", "a">> >>, << <<"b">>, <<" ">> >> }
\* the PCM chunks of one synthesis message
PcmChunks == { <<1, 2, 3>>, <<250>> }
\* data.status of a server message: 1 = more to come, 2 = completed
ServerStatuses == {1, SERVER_DONE}

\* {"code": 10000, "message": "invalid parameter"}
ErrMsg ==
    Msg(TRUE, 10000, "invalid parameter", FALSE, FALSE, << >>, << >>, FALSE, << >>, 0)
BadMsg == Msg(FALSE, 0, "", FALSE, FALSE, << >>, << >>, FALSE, << >>, 0)
\* a success message whose data holds a status only
BareMsg == Msg(TRUE, 0, "success", TRUE, FALSE, << >>, << >>, FALSE, << >>, 1)
AsrMsg(ws, wconf, st) ==
    Msg(TRUE, 0, "success", TRUE, TRUE, ws, wconf, FALSE, << >>, st)
TtsMsg(pcm, st) ==
    Msg(TRUE, 0, "success", TRUE, FALSE, << >>, << >>, TRUE, pcm, st)

\* a number given in hundredths, in ten-thousandths: Hundredths(95) is 0.95
Hundredths(n) == n * 100
\* the scale on which the server states the confidence of a word: "unit" is
\* 0..1, "percent" is 0..100
Scales(o) == IF o \in {SvcStt, AppAsr} THEN {"unit", "percent"} ELSE {"percent"}
\* the confidence of each word of a word list as the server states it on the
\* scale sc: 0.8 and 0.95 (80 and 95), or 0.01 and 0 (1 and 0)
WordConf(ws, sc) ==
    IF Len(ws) = 1
    THEN IF sc = "unit" THEN << <<Hundredths(80), Hundredths(95)>> >>
         ELSE << <<Hundredths(8000), Hundredths(9500)>> >>
    ELSE IF sc = "unit" THEN << <<Hundredths(1)>>, <<0>> >>
         ELSE << <<Hundredths(100)>>, <<0>> >>

ServerMessages(o, sc) ==
    {ErrMsg, BadMsg, BareMsg} \cup
    (IF o \in AsrOps
     THEN {AsrMsg(ws, WordConf(ws, sc), st) : ws \in WordLists, st \in ServerStatuses}
     ELSE {TtsMsg(pcm, st) : pcm \in PcmChunks, st \in ServerStatuses})

\* the text of one message: the words of data.result.ws[].cw[] joined
MsgText(m) == Flatten(m.ws)

(***************************************************************************)
(* Credentials, endpoints and the signed URL.                              *)
(***************************************************************************)
\* Python None, as the value of a setting that is not configured
None == "<None>"

\* settings.IFLYTEK_APP_ID, IFLYTEK_API_KEY, IFLYTEK_API_SECRET as the
\* constructor copies them (speech_service.py:26-28)
Credential(app_id, api_key, api_secret) ==
    [app_id |-> app_id, api_key |-> api_key, api_secret |-> api_secret]

CompleteCredential == Credential("appid", "key", "secret")

\* the values a setting can have besides a configured one: core/config.py
\* declares Optional[str] = None, app/utils/config.py declares str = ""
UnsetValues(o) == IF o \in {AppAsr, AppTts} THEN {""} ELSE {"", None}

\* the credentials with exactly one field not configured
DefectiveCredentials(o) ==
    {Credential(v, "key", "secret") : v \in UnsetValues(o)}
    \cup {Credential("appid", v, "secret") : v \in UnsetValues(o)}
    \cup {Credential("appid", "key", v) : v \in UnsetValues(o)}

\* a credential field is empty
HasEmptyField(c) ==
    \E f \in {"app_id", "api_key", "api_secret"} : c[f] \in {"", None}

\* self.asr_url, self.tts_url (speech_service.py:31-32), as host and path
asr_url == [host |-> "iat-api.xfyun.cn", path |-> "/v2/iat"]
tts_url == [host |-> "tts-api.xfyun.cn", path |-> "/v2/tts"]

\* the endpoint an entry point passes to _generate_auth_url
BaseUrl(o) == IF o \in TtsOps THEN tts_url ELSE asr_url

\* the local auth_url before _generate_auth_url has run
NoUrl == [url |-> [host |-> "", path |-> ""], derived |-> 0]

\* a signed URL: the endpoint it is appended to, the host and path written
\* into signature_origin, the `host` and `date` query parameters, and the key
\* and the secret that went into `authorization`; derived: which derivation
\* produced it (not on the wire)
SignedUrl(url, sig_host, sig_path, host, date, c, n) ==
    [url |-> url, sig_host |-> sig_host, sig_path |-> sig_path, host |-> host,
     date |-> date, api_key |-> c.api_key, api_secret |-> c.api_secret,
     derived |-> n]

\* Timestamp with the date taken once, when the service object is built
Timestamp_Frozen(clk) == 0

\* datetime.now() / time.gmtime(): the date is the time of the call
Timestamp(clk) == clk

\* SpeechService._generate_auth_url (speech_service.py:34-63): host and
\* request line of the signature are literals
SvcGenerateAuthUrl(base_url, c, clk, n) ==
    SignedUrl(base_url, "ws-api.xfyun.cn", "/v2/iat", "ws-api.xfyun.cn",
              Timestamp(clk), c, n)

\* IFlytekVoiceService._generate_auth_url (voice_service.py:33-63): the same
\* literals
VoiceGenerateAuthUrl(url, c, clk, n) ==
    SignedUrl(url, "ws-api.xfyun.cn", "/v2/iat", "ws-api.xfyun.cn",
              Timestamp(clk), c, n)

\* app SpeechService._generate_auth_url (app speech_service.py:57-95): host
\* and path come from urlparse(url)
AppGenerateAuthUrl(url, c, clk, n) ==
    SignedUrl(url, url.host, url.path, url.host, Timestamp(clk), c, n)

generate_auth_url(o, c, clk, n) ==
    CASE o \in {AppAsr, AppTts}     -> AppGenerateAuthUrl(BaseUrl(o), c, clk, n)
      [] o \in {VoiceStt, VoiceTts} -> VoiceGenerateAuthUrl(BaseUrl(o), c, clk, n)
      [] OTHER                      -> SvcGenerateAuthUrl(BaseUrl(o), c, clk, n)

\* self.api_secret.encode('utf-8') on None raises AttributeError; an empty
\* string is a valid HMAC key, and None formats as "None" in the f-string
GenerateRaises(c) == c.api_secret = None

(***************************************************************************)
(* State.                                                                  *)
(***************************************************************************)
VARIABLES
    cred,          \* the credential fields of the service object
    clock,         \* the wall clock, in seconds
    calls,         \* how many operations were started on the service object
    scale,         \* the scale of the confidences the server states
    sessions,      \* the calls running concurrently on the service object
    conversion,    \* a call of the container writer: input, rate, output
    search,        \* a call of QwenLLMService.search_knowledge
    query,         \* a call of NLPService.process_query
    redis,         \* the value stored under the key session:<id>
    adders,        \* the calls of SessionService.add_message for that id
    derived,       \* how many signed URLs were derived so far
    auth_url,      \* local `auth_url`
    attempts,      \* the signed URLs handed to websockets.connect, in order
    op,            \* the entry point called
    caller,        \* "http" (through the handler) or "direct"
    content_type,  \* UploadFile.content_type
    audio_data,    \* the raw audio (ASR input)
    text,          \* the text (TTS input)
    pc,            \* control position of the call
    conn,          \* the WebSocket: "none", "open", "closed"
    sent,          \* the frames sent on the connection, in order
    received,      \* the server messages the session consumed, in order
    i,             \* loop variable of stream_speech_to_text
    status,        \* local `status` of stream_speech_to_text
    result_text,   \* local `result_text`
    confidence,    \* local `confidence`, in ten-thousandths
    audio_acc,     \* local `audio_data` accumulator of the TTS functions
    yielded,       \* what a generator handed to its consumer, in order
    result,        \* how the service call ended
    response       \* what the HTTP client got

\* the service object and its environment: no step of a call changes them
\* the calls of the services behind the speech front end
storevars == <<redis, adders>>
kbvars == <<search, query, storevars>>
svcvars == <<cred, clock, calls, scale, sessions, conversion, kbvars>>
\* the signed URL of the call
urlvars == <<derived, auth_url>>

vars == <<kbvars, cred, clock, calls, scale, sessions, conversion, derived, auth_url, attempts,
          op, caller, content_type, audio_data, text, pc, conn, sent, received,
          i, status, result_text, confidence, audio_acc, yielded, result,
          response>>

NoResult   == [kind |-> "none"]
\* no concurrent calls: the runs of one call at a time
NoSessions == << >>
\* the container writer is not called on its own
NoWav == << >>
\* search_knowledge is not called
NoSearch == << >>
\* none of the services behind the speech front end is called
\* process_query is not called
NoQuery == << >>
\* the key is not set (redis.get returns None)
NoSession == << >>
\* add_message is not called
NoAdders == << >>
KbIdle ==
    /\ search = NoSearch /\ query = NoQuery
    /\ redis = NoSession /\ adders = NoAdders
NoResponse == [status |-> 0]

\* the credentials of the runs of Spec: a complete one, and for the variants
\* configured through core/config.py the default of an unset secret
Credentials(o) ==
    {CompleteCredential}
    \cup (IF o \in {AppAsr, AppTts} THEN {}
          ELSE {Credential("appid", "key", None)})

\* the locals of a call when it starts
CallStarts ==
    /\ pc = IF caller = "http" THEN "handler" ELSE "call"
    /\ auth_url = NoUrl
    /\ conn = "none"
    /\ sent = << >>
    /\ received = << >>
    /\ i = 0
    /\ status = 0
    /\ result_text = << >>
    /\ confidence = 0
    /\ audio_acc = << >>
    /\ yielded = << >>
    /\ result = NoResult
    /\ response = NoResponse

\* a fresh service object
ServiceStarts ==
    /\ clock = 0
    /\ calls = 1
    /\ derived = 0
    /\ attempts = << >>

Init ==
    /\ op \in Ops
    /\ cred \in Credentials(op)
    /\ scale \in Scales(op)
    /\ sessions = NoSessions
    /\ conversion = NoWav
    /\ caller \in Callers(op)
    /\ content_type \in ContentTypes(op, caller)
    /\ audio_data \in AudioInputs(op)
    /\ text \in TextInputs(op)
    /\ ServiceStarts
    /\ KbIdle
    /\ CallStarts

(***************************************************************************)
(* Request frames.                                                         *)
(***************************************************************************)
\* one JSON frame sent on the connection: data.status, the base64 payload
\* (data.audio or data.text), whether it carries common/business, and the
\* offset of its first byte in the input buffer
Frame(st, kind, payload, hasCommon, off) ==
    [status |-> st, kind |-> kind, payload |-> payload, common |-> hasCommon,
     offset |-> off]

\* FrameStatus with the end test one chunk early: the last two chunks are
\* both tagged END
FrameStatus_EarlyEnd(at, n) ==
    IF at + 2 * chunk_size >= n THEN STATUS_END
    ELSE IF at = 0 THEN STATUS_START ELSE STATUS_CONTINUE

\* FrameStatus with the tags in the wrong order: the first chunk is tagged
\* END, the others CONTINUE
FrameStatus_EndFirst(at, n) == IF at = 0 THEN STATUS_END ELSE STATUS_CONTINUE

\* status of the chunk at offset `at` of a buffer of n bytes
\* (stream_speech_to_text, lines 158-160)
FrameStatus(at, n) ==
    IF at + chunk_size >= n THEN STATUS_END
    ELSE IF at = 0 THEN STATUS_START ELSE STATUS_CONTINUE

\* Chunk with the slice one byte too long: audio_data[i:i + chunk_size + 1]
Chunk_Overlap(buf, at) == Slice(buf, at, at + chunk_size + 1)

\* chunk = audio_data[i:i + chunk_size]
Chunk(buf, at) == Slice(buf, at, at + chunk_size)

\* the frame stream_speech_to_text sends for offset `at`
StreamFrame(buf, at) ==
    Frame(FrameStatus(at, Len(buf)), "audio", B64Encode(Chunk(buf, at)), TRUE, at)

\* speech_to_text (speech_service.py:83-113): a first frame with the whole
\* audio, then an end frame with an empty payload
SvcSttFrames(buf) ==
    << Frame(STATUS_START, "audio", B64Encode(buf), TRUE, 0),
       Frame(STATUS_END, "audio", << >>, FALSE, Len(buf)) >>

\* recognize_speech (app speech_service.py:107-134): one frame, status 2; its
\* payload is the base64 text the caller passed
AppAsrFrames(buf) == << Frame(STATUS_END, "audio", B64Encode(buf), TRUE, 0) >>

\* IFlytekVoiceService.speech_to_text (voice_service.py:72-91): one frame,
\* status 0; no end frame is sent
VoiceSttFrames(buf) == << Frame(STATUS_START, "audio", B64Encode(buf), TRUE, 0) >>

\* the single request of the TTS entry points (speech_service.py:217-237,
\* 269-289; app speech_service.py:178-203; voice_service.py:119-139)
TtsFrame(t) == Frame(STATUS_END, "text", B64Encode(Utf8(t)), TRUE, 0)

\* the frames an entry point other than stream_speech_to_text sends, in order
RequestFrames(o, buf, t) ==
    CASE o = SvcStt   -> SvcSttFrames(buf)
      [] o = AppAsr   -> AppAsrFrames(buf)
      [] o = VoiceStt -> VoiceSttFrames(buf)
      [] OTHER        -> << TtsFrame(t) >>

(***************************************************************************)
(* The container writer (app/services/speech_service.py _convert_to_wav).  *)
(***************************************************************************)
AUDIO_SAMPLE_RATE == 16000

LE16(x) == << x % 256, (x \div 256) % 256 >>
LE32(x) == << x % 256, (x \div 256) % 256, (x \div 65536) % 256, (x \div 16777216) % 256 >>

\* the 44-byte RIFF/WAVE header wave.open(..., 'wb') writes for n data bytes
WavHeader(n, nchannels, sampwidth, framerate) ==
    <<82, 73, 70, 70>> \o LE32(36 + n) \o <<87, 65, 86, 69>>
    \o <<102, 109, 116, 32>> \o LE32(16) \o LE16(1) \o LE16(nchannels)
    \o LE32(framerate) \o LE32(nchannels * framerate * sampwidth)
    \o LE16(nchannels * sampwidth) \o LE16(sampwidth * 8)
    \o <<100, 97, 116, 97>> \o LE32(n)

\* _convert_to_wav (app speech_service.py:239-256) with self.sample_rate =
\* sample_rate: setframerate raises wave.Error for a rate that is not positive,
\* and the except clause returns the input as it came
convert_to_wav(raw_audio, sample_rate) ==
    IF sample_rate <= 0 THEN raw_audio
    ELSE WavHeader(Len(raw_audio), 1, 2, sample_rate) \o raw_audio

(***************************************************************************)
(* Exceptions, as the text str(e) gives, in parts.                         *)
(***************************************************************************)
ExcHandshake == <<"InvalidHandshake">>
ExcClosed    == <<"ConnectionClosed">>
ExcJson      == <<"JSONDecodeError">>
ExcKey       == <<"KeyError">>
ExcB64       == <<"binascii.Error">>
ExcType      == <<"TypeError: Object of type bytes is not JSON serializable">>
ExcAttr      == <<"AttributeError: 'dict' object has no attribute 'encode'">>
ExcNoneAttr  == <<"AttributeError: 'NoneType' object has no attribute 'encode'">>

(***************************************************************************)
(* One iteration of the receive loops.                                     *)
(***************************************************************************)
\* next: "continue" (next iteration), "break", "return" (a return inside the
\* loop), "raise"; text/audio: the accumulators after the iteration; out: the
\* chunks yielded in it; err: the error text
Outcome(next, t, a, out, err) ==
    [next |-> next, text |-> t, audio |-> a, out |-> out, err |-> err]

\* the words of data.result.ws of a message, << >> when the keys are absent
Words(m) == IF m.hasData /\ m.hasResult THEN MsgText(m) ELSE << >>
\* the decoded data.audio of a message, << >> when the keys are absent
AudioChunk(m) == IF m.hasData /\ m.hasAudio THEN B64Decode(m.audio) ELSE << >>
\* data.get("data", {}).get("status") == 2
Done(m) == m.hasData /\ m.status = SERVER_DONE

\* SvcAsrStep with the status test before the accumulation: the words of the
\* status-2 message are lost
SvcAsrStep_BreakBeforeAppend(m, rt) ==
    IF ~m.valid THEN Outcome("raise", rt, << >>, << >>, ExcJson)
    ELSE IF m.code # 0
    THEN Outcome("raise", rt, << >>, << >>, <<"asr error: ", m.message>>)
    ELSE IF Done(m) THEN Outcome("break", rt, << >>, << >>, << >>)
    ELSE Outcome("continue", rt \o Words(m), << >>, << >>, << >>)

\* SpeechService.speech_to_text, one message of `async for message in
\* websocket` (speech_service.py:116-131)
SvcAsrStep(m, rt) ==
    IF ~m.valid THEN Outcome("raise", rt, << >>, << >>, ExcJson)
    ELSE IF m.code # 0
    THEN Outcome("raise", rt, << >>, << >>, <<"asr error: ", m.message>>)
    ELSE Outcome(IF Done(m) THEN "break" ELSE "continue", rt \o Words(m),
                 << >>, << >>, << >>)

\* recognize_speech, one message (app speech_service.py:137-159): a non-zero
\* code returns the failure record from inside the loop
AppAsrStep(m, rt) ==
    IF ~m.valid THEN Outcome("raise", rt, << >>, << >>, ExcJson)
    ELSE IF m.code # 0
    THEN Outcome("return", rt, << >>, << >>, <<m.message>>)
    ELSE Outcome(IF Done(m) THEN "break" ELSE "continue", rt \o Words(m),
                 << >>, << >>, << >>)

\* IFlytekVoiceService.speech_to_text, one message (voice_service.py:95-105):
\* result = data["data"]["result"] is read whenever "data" is present, and the
\* loop has no break
VoiceAsrStep(m, rt) ==
    IF ~m.valid THEN Outcome("raise", rt, << >>, << >>, ExcJson)
    ELSE IF m.code # 0
    THEN Outcome("raise", rt, << >>, << >>, <<"ASR error: ", m.message>>)
    ELSE IF m.hasData /\ ~m.hasResult
    THEN Outcome("raise", rt, << >>, << >>, ExcKey)
    ELSE Outcome("continue", rt \o Words(m), << >>, << >>, << >>)

\* SvcTtsStep with the chunk put in front of the buffer:
\* audio_data = audio_chunk + audio_data
SvcTtsStep_Prepend(m, acc) ==
    IF ~m.valid THEN Outcome("raise", << >>, acc, << >>, ExcJson)
    ELSE IF m.code # 0
    THEN Outcome("raise", << >>, acc, << >>, <<"tts error: ", m.message>>)
    ELSE Outcome(IF Done(m) THEN "break" ELSE "continue", << >>,
                 AudioChunk(m) \o acc, << >>, << >>)

\* SpeechService.text_to_speech, one message (speech_service.py:239-250)
SvcTtsStep(m, acc) ==
    IF ~m.valid THEN Outcome("raise", << >>, acc, << >>, ExcJson)
    ELSE IF m.code # 0
    THEN Outcome("raise", << >>, acc, << >>, <<"tts error: ", m.message>>)
    ELSE Outcome(IF Done(m) THEN "break" ELSE "continue", << >>,
                 acc \o AudioChunk(m), << >>, << >>)

\* SpeechService.stream_text_to_speech, one message (speech_service.py:291-302):
\* the decoded chunk is yielded, nothing is accumulated
SvcStreamTtsStep(m, acc) ==
    IF ~m.valid THEN Outcome("raise", << >>, acc, << >>, ExcJson)
    ELSE IF m.code # 0
    THEN Outcome("raise", << >>, acc, << >>, <<"tts error: ", m.message>>)
    ELSE Outcome(IF Done(m) THEN "break" ELSE "continue", << >>, acc,
                 IF m.hasData /\ m.hasAudio THEN << AudioChunk(m) >> ELSE << >>,
                 << >>)

\* synthesize_speech, one message (app speech_service.py:206-223)
AppTtsStep(m, acc) ==
    IF ~m.valid THEN Outcome("raise", << >>, acc, << >>, ExcJson)
    ELSE IF m.code # 0
    THEN Outcome("return", << >>, acc, << >>, <<m.message>>)
    ELSE Outcome(IF Done(m) THEN "break" ELSE "continue", << >>,
                 acc \o AudioChunk(m), << >>, << >>)

\* IFlytekVoiceService.text_to_speech, one message (voice_service.py:143-150):
\* data["data"]["audio"] is read whenever "data" is present, and the loop has
\* no break
VoiceTtsStep(m, acc) ==
    IF ~m.valid THEN Outcome("raise", << >>, acc, << >>, ExcJson)
    ELSE IF m.code # 0
    THEN Outcome("raise", << >>, acc, << >>, <<"TTS error: ", m.message>>)
    ELSE IF m.hasData /\ ~m.hasAudio
    THEN Outcome("raise", << >>, acc, << >>, ExcKey)
    ELSE Outcome("continue", << >>, acc \o AudioChunk(m), << >>, << >>)

Max(a, b) == IF a >= b THEN a ELSE b
RECURSIVE MaxOf(_)
\* the largest number of a sequence of naturals, 0 for the empty one
MaxOf(ns) == IF ns = << >> THEN 0 ELSE Max(Head(ns), MaxOf(Tail(ns)))
\* the confidence numbers data.result.ws[].cw[] of a message, in order
WordConfs(m) == IF m.hasData /\ m.hasResult THEN Flatten(m.wconf) ELSE << >>
\* whether the loop body reaches the words of the message
ReadsWords(m) == m.valid /\ m.code = 0

\* speech_service.py:126-128: confidence = max(confidence, cw["wp"] / 100.0)
SvcConfidence(m, c) ==
    IF ReadsWords(m) THEN Max(c, MaxOf(WordConfs(m)) \div 100) ELSE c
\* app speech_service.py:152-155: confidence = max(confidence, cw["sc"])
AppConfidence(m, c) ==
    IF ReadsWords(m) THEN Max(c, MaxOf(WordConfs(m))) ELSE c
\* the local `confidence` after the loop body of the entry point o; the other
\* entry points keep no confidence
Confidence(o, m, c) ==
    CASE o = SvcStt -> SvcConfidence(m, c)
      [] o = AppAsr -> AppConfidence(m, c)
      [] OTHER      -> c

\* the loop body of the entry point o
Step(o, m, rt, acc) ==
    CASE o = SvcStt       -> SvcAsrStep(m, rt)
      [] o = AppAsr       -> AppAsrStep(m, rt)
      [] o = VoiceStt     -> VoiceAsrStep(m, rt)
      [] o = SvcTts       -> SvcTtsStep(m, acc)
      [] o = SvcStreamTts -> SvcStreamTtsStep(m, acc)
      [] o = AppTts       -> AppTtsStep(m, acc)
      [] o = VoiceTts     -> VoiceTtsStep(m, acc)

(***************************************************************************)
(* How a call ends.                                                        *)
(***************************************************************************)
Returned(v) == [kind |-> "return", value |-> v]
Raised(e)   == [kind |-> "raise", err |-> e]

\* speech_service.py:133-136  return {"text": result_text, "confidence": ...}
SvcSttReturn(rt, c) == Returned([text |-> rt, confidence |-> c])
\* app speech_service.py:161-165  "text": result_text.strip()
AppAsrReturn(rt, c) ==
    Returned([success |-> TRUE, text |-> strip(rt),
              confidence |-> IF c > Hundredths(100) THEN c \div 100 ELSE c])
\* voice_service.py:107  return result_text.strip()
VoiceSttReturn(rt) == Returned(strip(rt))
\* speech_service.py:252 and voice_service.py:152  return audio_data
TtsReturn(acc) == Returned(acc)
\* app speech_service.py:225-233: the buffer is wrapped and base64-encoded
AppTtsReturn(acc) ==
    Returned([success |-> TRUE,
              audio_data |-> B64Encode(convert_to_wav(acc, AUDIO_SAMPLE_RATE)),
              format |-> "wav", sample_rate |-> AUDIO_SAMPLE_RATE])
\* an async generator that runs to its end
GeneratorEnd == Returned("StopAsyncIteration")
\* an async generator closed by its consumer: GeneratorExit is raised at the
\* yield it is suspended at and leaves the function
GeneratorClosed == [kind |-> "closed"]

\* the value the entry point returns after its receive loop
ReturnValue(o, rt, c, acc) ==
    CASE o = SvcStt   -> SvcSttReturn(rt, c)
      [] o = AppAsr   -> AppAsrReturn(rt, c)
      [] o = VoiceStt -> VoiceSttReturn(rt)
      [] o = SvcTts   -> TtsReturn(acc)
      [] o = VoiceTts -> TtsReturn(acc)
      [] o = AppTts   -> AppTtsReturn(acc)
      [] OTHER        -> GeneratorEnd

\* app speech_service.py:140-143, 209-212: a non-zero code returns the failure
\* record with the server's message
AppErrorReturn(error_msg) == Returned([success |-> FALSE, error |-> error_msg])

\* speech_service.py:138-140, 254-256, 304-306: logged and re-raised
SvcOnException(e) == Raised(e)
\* speech_service.py:200-202: the generator yields the error update and ends
StreamSttOnException(e) == GeneratorEnd
\* app speech_service.py:167-169, 235-237: a failure record is returned
AppOnException(e) == Returned([success |-> FALSE, error |-> e])
\* voice_service.py:109-110
VoiceSttOnException(e) == Raised(<<"speech recognition failed: ">> \o e)
\* voice_service.py:154-155
VoiceTtsOnException(e) == Raised(<<"speech synthesis failed: ">> \o e)

\* the `except Exception as e` clause of the entry point
OnException(o, e) ==
    CASE o \in {SvcStt, SvcTts, SvcStreamTts} -> SvcOnException(e)
      [] o = SvcStreamStt -> StreamSttOnException(e)
      [] o \in {AppAsr, AppTts} -> AppOnException(e)
      [] o = VoiceStt -> VoiceSttOnException(e)
      [] o = VoiceTts -> VoiceTtsOnException(e)

\* json.dumps({"text": partial_text, "final": status == 2}) and
\* json.dumps({"error": str(e)}) of stream_speech_to_text
TextUpdate(t, st) == [kind |-> "text", text |-> t, final |-> (st = STATUS_END), error |-> << >>]
ErrorUpdate(e)    == [kind |-> "error", text |-> << >>, final |-> FALSE, error |-> e]

\* Closed with the connection left as it is
Closed_Leak(c) == c

\* `async with websockets.connect(...) as websocket` is left: an open
\* connection is closed
Closed(c) == IF c = "open" THEN "closed" ELSE c

\* the call is left, through `async with` when the connection was opened
Leave(res) ==
    /\ result' = res
    /\ conn' = Closed(conn)
    /\ pc' = IF caller = "http" THEN "respond" ELSE "done"

\* an exception reaches the `except` clause of the entry point
Fail(e) ==
    /\ Leave(OnException(op, e))
    /\ yielded' = IF op = SvcStreamStt THEN Append(yielded, ErrorUpdate(e)) ELSE yielded

(***************************************************************************)
(* The HTTP handlers, before the service call.                             *)
(***************************************************************************)
\* api/asr.py:29-42: the detail of the 400 answer, << >> when the upload passes
AsrHandlerRejects(ct, buf) ==
    IF ct # "audio/wav" THEN <<"unsupported file type">>
    ELSE IF Len(buf) = 0 THEN <<"audio file is empty">>
    ELSE << >>

\* api/tts.py:27-37: the detail of the 400 answer, << >> when the text passes
TtsHandlerRejects(t) ==
    IF strip(t) = << >> THEN <<"text must not be empty">>
    ELSE IF Len(t) > 1000 THEN <<"text longer than 1000 characters">>
    ELSE << >>

\* the other handlers check nothing before the call
HandlerRejects(o, ct, buf, t) ==
    CASE o = SvcStt -> AsrHandlerRejects(ct, buf)
      [] o = SvcTts -> TtsHandlerRejects(t)
      [] OTHER      -> << >>

HandlerEntry ==
    /\ pc = "handler"
    /\ LET detail == HandlerRejects(op, content_type, audio_data, text)
       IN  IF detail # << >>
           THEN /\ response' = [status |-> 400, detail |-> detail]
                /\ pc' = "done"
           ELSE /\ pc' = "call"
                /\ UNCHANGED response
    /\ UNCHANGED <<svcvars, confidence, urlvars, attempts, op, caller, content_type, audio_data, text, conn, sent,
                   received, i, status, result_text, audio_acc, yielded, result>>

(***************************************************************************)
(* The service call: connect, send, receive.                               *)
(***************************************************************************)
\* recognize_speech line 101: base64.b64decode(audio_data) on the raw bytes the
\* handler of app/main.py passes raises or not, depending on the bytes
DecodeInputFails ==
    /\ pc = "call" /\ op = AppAsr /\ caller = "http" /\ Len(audio_data) > 0
    /\ Fail(ExcB64)
    /\ UNCHANGED <<svcvars, confidence, urlvars, attempts, op, caller, content_type, audio_data, text, sent, received,
                   i, status, result_text, audio_acc, response>>

\* websockets.connect(auth_url): the URL handed over and the time of the attempt
Attempt(url, clk) == [url |-> url, at |-> clk]

\* auth_url = self._generate_auth_url(...) returns
GenerateAuthUrl ==
    /\ pc = "call"
    /\ ~GenerateRaises(cred)
    /\ derived' = derived + 1
    /\ auth_url' = generate_auth_url(op, cred, clock, derived + 1)
    /\ pc' = "connect"
    /\ UNCHANGED <<svcvars, confidence, attempts, op, caller, content_type, audio_data, text,
                   conn, sent, received, i, status, result_text, audio_acc,
                   yielded, result, response>>

\* self._generate_auth_url(...) raises: the secret is None
GenerateAuthUrlFails ==
    /\ pc = "call"
    /\ GenerateRaises(cred)
    /\ Fail(ExcNoneAttr)
    /\ UNCHANGED <<svcvars, confidence, urlvars, attempts, op, caller, content_type,
                   audio_data, text, sent, received, i, status, result_text,
                   audio_acc, response>>

\* websockets.connect(auth_url) succeeds
ConnectOk ==
    /\ pc = "connect"
    /\ attempts' = Append(attempts, Attempt(auth_url, clock))
    /\ conn' = "open"
    /\ pc' = IF op = SvcStreamStt THEN "loop" ELSE "send"
    /\ UNCHANGED <<svcvars, confidence, urlvars, op, caller, content_type, audio_data, text,
                   sent, received, i, status, result_text, audio_acc, yielded,
                   result, response>>

\* ConnectFails with the connection tried again after a refused handshake
ConnectFails_Retry ==
    /\ pc = "connect"
    /\ Len(attempts) < 2
    /\ attempts' = Append(attempts, Attempt(auth_url, clock))
    /\ UNCHANGED <<svcvars, confidence, urlvars, op, caller, content_type, audio_data, text,
                   pc, conn, sent, received, i, status, result_text, audio_acc,
                   yielded, result, response>>

\* websockets.connect(auth_url) raises (handshake refused, network error)
ConnectFails ==
    /\ pc = "connect"
    /\ attempts' = Append(attempts, Attempt(auth_url, clock))
    /\ Fail(ExcHandshake)
    /\ UNCHANGED <<svcvars, confidence, urlvars, op, caller, content_type, audio_data, text,
                   sent, received, i, status, result_text, audio_acc, response>>

\* await websocket.send(json.dumps(...)) of the one-shot ASR and TTS functions
SendFrame ==
    /\ pc = "send"
    /\ ~(op = AppAsr /\ caller = "http")
    /\ LET fs == RequestFrames(op, audio_data, text)
       IN  /\ sent' = Append(sent, fs[Len(sent) + 1])
           /\ pc' = IF Len(sent) + 1 = Len(fs) THEN "recv" ELSE "send"
    /\ UNCHANGED <<svcvars, confidence, urlvars, attempts, op, caller, content_type, audio_data, text, conn, received,
                   i, status, result_text, audio_acc, yielded, result, response>>

\* json.dumps(params) with params["data"]["audio"] of type bytes
SendTypeError ==
    /\ pc = "send" /\ op = AppAsr /\ caller = "http"
    /\ Fail(ExcType)
    /\ UNCHANGED <<svcvars, confidence, urlvars, attempts, op, caller, content_type, audio_data, text, sent, received,
                   i, status, result_text, audio_acc, response>>

\* websocket.send raises: the connection dropped
SendFails ==
    /\ pc = "send"
    /\ ~(op = AppAsr /\ caller = "http")
    /\ Fail(ExcClosed)
    /\ UNCHANGED <<svcvars, confidence, urlvars, attempts, op, caller, content_type, audio_data, text, sent, received,
                   i, status, result_text, audio_acc, response>>

\* `async for message in websocket`: the next server message
RecvMessage ==
    /\ pc = "recv"
    /\ Len(received) < MaxMsgs
    /\ \E m \in ServerMessages(op, scale) :
        LET r == Step(op, m, result_text, audio_acc)
        IN  /\ received' = Append(received, m)
            /\ result_text' = r.text
            /\ confidence' = Confidence(op, m, confidence)
            /\ audio_acc' = r.audio
            /\ CASE r.out # << >> ->
                        \* the generator is suspended at its yield
                        /\ yielded' = yielded \o r.out
                        /\ pc' = "yield"
                        /\ UNCHANGED <<conn, result>>
                 [] r.next = "continue" /\ r.out = << >> ->
                        /\ yielded' = yielded
                        /\ UNCHANGED <<pc, conn, result>>
                 [] r.next = "break" /\ r.out = << >> ->
                        /\ yielded' = yielded
                        /\ Leave(ReturnValue(op, r.text, confidence', r.audio))
                 [] r.next = "return" ->
                        /\ yielded' = yielded
                        /\ Leave(AppErrorReturn(r.err))
                 [] r.next = "raise" -> Fail(r.err)
    /\ UNCHANGED <<svcvars, urlvars, attempts, op, caller, content_type, audio_data, text, sent, i, status,
                   response>>

\* `async for` ends: the server closed the connection normally
RecvCloseOk ==
    /\ pc = "recv"
    /\ Leave(ReturnValue(op, result_text, confidence, audio_acc))
    /\ UNCHANGED <<svcvars, confidence, urlvars, attempts, op, caller, content_type, audio_data, text, sent, received,
                   i, status, result_text, audio_acc, yielded, response>>

\* `async for` raises ConnectionClosedError: the connection dropped
RecvCloseError ==
    /\ pc = "recv"
    /\ Fail(ExcClosed)
    /\ UNCHANGED <<svcvars, confidence, urlvars, attempts, op, caller, content_type, audio_data, text, sent, received,
                   i, status, result_text, audio_acc, response>>

(***************************************************************************)
(* stream_speech_to_text: the chunk loop (speech_service.py:156-198).      *)
(***************************************************************************)
\* `for i in range(0, len(audio_data), chunk_size)` is exhausted: the
\* generator ends
StreamLoopEnd ==
    /\ pc = "loop"
    /\ i >= Len(audio_data)
    /\ Leave(GeneratorEnd)
    /\ UNCHANGED <<svcvars, confidence, urlvars, attempts, op, caller, content_type, audio_data, text, sent, received,
                   i, status, result_text, audio_acc, yielded, response>>

\* lines 157-179: the chunk at offset i is tagged and sent
StreamSend ==
    /\ pc = "loop"
    /\ i < Len(audio_data)
    /\ status' = FrameStatus(i, Len(audio_data))
    /\ sent' = Append(sent, StreamFrame(audio_data, i))
    /\ pc' = "stream_recv"
    /\ UNCHANGED <<svcvars, confidence, urlvars, attempts, op, caller, content_type, audio_data, text, conn, received,
                   i, result_text, audio_acc, yielded, result, response>>

\* line 179 raises: the connection dropped
StreamSendFails ==
    /\ pc = "loop"
    /\ i < Len(audio_data)
    /\ status' = FrameStatus(i, Len(audio_data))
    /\ Fail(ExcClosed)
    /\ UNCHANGED <<svcvars, confidence, urlvars, attempts, op, caller, content_type, audio_data, text, sent, received,
                   i, result_text, audio_acc, response>>

\* what lines 184-195 yield for message m while the local status is st
StreamUpdates(m, st) ==
    LET partial_text == IF m.hasData /\ m.hasResult THEN MsgText(m) ELSE << >>
    IN  IF partial_text # << >> THEN << TextUpdate(partial_text, st) >> ELSE << >>

\* line 183: a message arrives within the second
StreamRecvMessage ==
    /\ pc = "stream_recv"
    /\ Len(received) < MaxMsgs
    /\ \E m \in ServerMessages(op, scale) :
        /\ received' = Append(received, m)
        /\ IF ~m.valid
           THEN /\ Fail(ExcJson)
                /\ UNCHANGED i
           ELSE IF StreamUpdates(m, status) # << >>
           THEN \* the generator is suspended at the yield of line 195
                /\ yielded' = yielded \o StreamUpdates(m, status)
                /\ pc' = "yield"
                /\ UNCHANGED <<i, conn, result>>
           ELSE /\ i' = i + chunk_size
                /\ pc' = "loop"
                /\ UNCHANGED <<yielded, conn, result>>
    /\ UNCHANGED <<svcvars, confidence, urlvars, attempts, op, caller, content_type, audio_data, text, sent, status,
                   result_text, audio_acc, response>>

ExcTimeout == <<"TimeoutError">>

\* StreamRecvTimeout without the inner except clause: the TimeoutError reaches
\* `except Exception` of line 200
StreamRecvTimeout_Fatal ==
    /\ pc = "stream_recv"
    /\ Fail(ExcTimeout)
    /\ UNCHANGED <<svcvars, confidence, urlvars, attempts, op, caller, content_type, audio_data, text, sent, received,
                   i, status, result_text, audio_acc, response>>

\* lines 197-198: asyncio.TimeoutError, `continue`
StreamRecvTimeout ==
    /\ pc = "stream_recv"
    /\ i' = i + chunk_size
    /\ pc' = "loop"
    /\ UNCHANGED <<svcvars, confidence, urlvars, attempts, op, caller, content_type, audio_data, text, conn, sent,
                   received, status, result_text, audio_acc, yielded, result,
                   response>>

\* line 183: websocket.recv() raises ConnectionClosed
StreamRecvClosed ==
    /\ pc = "stream_recv"
    /\ Fail(ExcClosed)
    /\ UNCHANGED <<svcvars, confidence, urlvars, attempts, op, caller, content_type, audio_data, text, sent, received,
                   i, status, result_text, audio_acc, response>>

(***************************************************************************)
(* The consumer of a generator (stream_speech_to_text,                     *)
(* stream_text_to_speech) while the generator is suspended at a yield.     *)
(***************************************************************************)
\* the consumer asks for the next value: the generator goes on after its
\* yield (speech_service.py:195 -> next chunk of the for loop; 299 -> the
\* status test of lines 301-302)
ConsumerResumes ==
    /\ pc = "yield"
    /\ IF op = SvcStreamStt
       THEN /\ i' = i + chunk_size
            /\ pc' = "loop"
            /\ UNCHANGED <<conn, result>>
       ELSE /\ IF Done(received[Len(received)])
               THEN Leave(GeneratorEnd)
               ELSE pc' = "recv" /\ UNCHANGED <<conn, result>>
            /\ UNCHANGED i
    /\ UNCHANGED <<svcvars, confidence, urlvars, attempts, op, caller, content_type,
                   audio_data, text, sent, received, status, result_text,
                   audio_acc, yielded, response>>

\* the consumer abandons the sequence: the generator is closed, GeneratorExit
\* passes `except Exception` and leaves `async with`
ConsumerAbandons ==
    /\ pc = "yield"
    /\ result' = GeneratorClosed
    /\ conn' = Closed(conn)
    /\ pc' = "done"
    /\ UNCHANGED <<svcvars, confidence, urlvars, attempts, op, caller, content_type,
                   audio_data, text, sent, received, i, status, result_text,
                   audio_acc, yielded, response>>

(***************************************************************************)
(* The HTTP handlers, after the service call.                              *)
(***************************************************************************)
\* api/asr.py:50-64
AsrHandlerResponse(res) ==
    IF res.kind = "return"
    THEN [status |-> 200, body |-> [text |-> res.value.text,
                                    confidence |-> res.value.confidence]]
    ELSE [status |-> 500, detail |-> <<"asr service error: ">> \o res.err]

\* api/asr.py:76-81: every update of the generator goes out as an event
AsrStreamHandlerResponse(yl) == [status |-> 200, events |-> yl]

\* api/tts.py:48-64
TtsHandlerResponse(res) ==
    IF res.kind = "return"
    THEN [status |-> 200, media_type |-> "audio/wav", body |-> res.value]
    ELSE [status |-> 500, detail |-> <<"tts service error: ">> \o res.err]

\* api/tts.py:72-84: the headers are sent before the generator runs; an
\* exception of the generator aborts the body
TtsStreamHandlerResponse(res, yl) ==
    [status |-> 200, media_type |-> "audio/wav", chunks |-> yl,
     aborted |-> (res.kind = "raise")]

\* app/main.py:122-128: result.get("text", ""), whatever result["success"] says
AppAsrHandlerResponse(res) ==
    [status |-> 200,
     body |-> [success |-> TRUE,
               text |-> IF res.value.success THEN res.value.text ELSE << >>,
               confidence |-> IF res.value.success THEN res.value.confidence
                              ELSE 0]]

\* app/main.py:142-152: Response(content=<dict>) raises inside the try
AppTtsHandlerResponse(res) ==
    [status |-> 500, detail |-> <<"speech synthesis failed: ">> \o ExcAttr]

HttpResponse(o, res, yl) ==
    CASE o = SvcStt       -> AsrHandlerResponse(res)
      [] o = SvcStreamStt -> AsrStreamHandlerResponse(yl)
      [] o = SvcTts       -> TtsHandlerResponse(res)
      [] o = SvcStreamTts -> TtsStreamHandlerResponse(res, yl)
      [] o = AppAsr       -> AppAsrHandlerResponse(res)
      [] o = AppTts       -> AppTtsHandlerResponse(res)

HttpRespond ==
    /\ pc = "respond"
    /\ response' = HttpResponse(op, result, yielded)
    /\ pc' = "done"
    /\ UNCHANGED <<svcvars, confidence, urlvars, attempts, op, caller, content_type, audio_data, text, conn, sent,
                   received, i, status, result_text, audio_acc, yielded, result>>

(***************************************************************************)
(* Specification.                                                          *)
(***************************************************************************)
Next ==
    \/ HandlerEntry
    \/ DecodeInputFails
    \/ GenerateAuthUrl
    \/ GenerateAuthUrlFails
    \/ ConnectOk
    \/ ConnectFails
    \/ SendFrame
    \/ SendTypeError
    \/ SendFails
    \/ RecvMessage
    \/ RecvCloseOk
    \/ RecvCloseError
    \/ StreamLoopEnd
    \/ StreamSend
    \/ StreamSendFails
    \/ StreamRecvMessage
    \/ StreamRecvTimeout
    \/ StreamRecvClosed
    \/ ConsumerResumes
    \/ ConsumerAbandons
    \/ HttpRespond

Spec == Init /\ [][Next]_vars

(***************************************************************************)
(* Several operations, one after the other, on one service object, with    *)
(* every credential that has one field unset.                              *)
(***************************************************************************)
\* at most MaxCalls operations are started on a service object
MaxCalls == 2

\* the entry points that are methods of the class of o
SameService(o) ==
    CASE o \in {AppAsr, AppTts}     -> {AppAsr, AppTts}
      [] o \in {VoiceStt, VoiceTts} -> {VoiceStt, VoiceTts}
      [] OTHER -> {SvcStt, SvcStreamStt, SvcTts, SvcStreamTts}

\* the inputs of these runs: one buffer of two chunks for the stream, one
\* short buffer for the one-shot functions, one text
AuthAudioInputs(o) ==
    CASE o = SvcStreamStt    -> {AudioBuf(chunk_size + 1)}
      [] o \in OneShotAsrOps -> {AudioBuf(2)}
      [] OTHER               -> {<< >>}

AuthTextInputs(o) == IF o \in TtsOps THEN {<<"a", "b">>} ELSE {<< >>}

InitAuth ==
    /\ op \in Ops
    /\ cred \in {CompleteCredential} \cup DefectiveCredentials(op)
    /\ scale = "percent"
    /\ sessions = NoSessions
    /\ conversion = NoWav
    /\ caller \in Callers(op)
    /\ content_type = "audio/wav"
    /\ audio_data \in AuthAudioInputs(op)
    /\ text \in AuthTextInputs(op)
    /\ ServiceStarts
    /\ KbIdle
    /\ CallStarts

\* the call is over and the next operation is started on the same object,
\* at once or a second later; the locals of the finished call are gone
NextCall ==
    /\ pc = "done"
    /\ calls < MaxCalls
    /\ calls' = calls + 1
    /\ clock' \in {clock, clock + 1}
    /\ op' \in SameService(op)
    /\ caller' \in Callers(op')
    /\ content_type' = "audio/wav"
    /\ audio_data' \in AuthAudioInputs(op')
    /\ text' \in AuthTextInputs(op')
    /\ pc' = IF caller' = "http" THEN "handler" ELSE "call"
    /\ auth_url' = NoUrl
    /\ conn' = "none"
    /\ sent' = << >>
    /\ received' = << >>
    /\ i' = 0
    /\ status' = 0
    /\ result_text' = << >>
    /\ confidence' = 0
    /\ audio_acc' = << >>
    /\ yielded' = << >>
    /\ result' = NoResult
    /\ response' = NoResponse
    /\ UNCHANGED <<cred, scale, sessions, conversion, kbvars, derived, attempts>>

NextAuth ==
    \/ Next
    \/ NextCall

SpecAuth == InitAuth /\ [][NextAuth]_vars

(***************************************************************************)
(* Two calls running concurrently on one service object (api/asr.py:19 and *)
(* api/tts.py:18 create one SpeechService per module, every request of the *)
(* event loop calls into it).                                              *)
(***************************************************************************)
MaxPairMsgs == 2
Sessions == {1, 2}
\* the entry points of the concurrent calls
PairOps == {SvcStt, SvcTts}
\* the inputs of the concurrent calls
PairAudio == AudioBuf(2)
PairText == <<"a", "b">>

\* Scope with the locals kept on the service object, as self.result_text,
\* self.confidence and self.audio_data would be
Scope_Shared(s) == 1
\* where the locals of the call s live: result_text, confidence
\* (speech_service.py:78-79) and audio_data (speech_service.py:214) are locals
\* of the coroutine, one frame per call
Scope(s) == s

\* result_text = "", confidence = 0.0 (speech_service.py:78-79);
\* audio_data = b"" (speech_service.py:214)
FreshLocals == [result_text |-> << >>, confidence |-> 0, audio_data |-> << >>]

\* two calls about to start; `overlap` records that a message was consumed by
\* one call while the other was in the middle of its receive loop
PairStarts(ops) ==
    [op       |-> ops,
     pc       |-> [s \in Sessions |-> "call"],
     sent     |-> [s \in Sessions |-> << >>],
     received |-> [s \in Sessions |-> << >>],
     locals   |-> [s \in Sessions |-> FreshLocals],
     result   |-> [s \in Sessions |-> NoResult],
     overlap  |-> FALSE]

\* the variables of the runs of one call at a time
callvars == <<cred, clock, calls, scale, derived, auth_url, attempts,
              op, caller, content_type, audio_data, text, pc, conn, sent,
              received, i, status, result_text, confidence, audio_acc, yielded,
              result, response>>

InitPair ==
    /\ op = SvcStt
    /\ cred = CompleteCredential
    /\ scale = "percent"
    /\ caller = "direct"
    /\ content_type = "audio/wav"
    /\ audio_data = PairAudio
    /\ text = << >>
    /\ ServiceStarts
    /\ KbIdle
    /\ CallStarts
    /\ sessions \in {PairStarts(ops) : ops \in [Sessions -> PairOps]}
    /\ conversion = NoWav

\* the call s is entered: its locals are initialised and its own connection is
\* opened (speech_service.py:71-81, 208-215)
PairEnter(s) ==
    /\ sessions.pc[s] = "call"
    /\ sessions' = [sessions EXCEPT !.pc[s] = "send",
                                     !.locals[Scope(s)] = FreshLocals]
    /\ UNCHANGED <<callvars, conversion, kbvars>>

\* await websocket.send(...) of the call s (speech_service.py:102, 113, 237)
PairSend(s) ==
    LET frames == RequestFrames(sessions.op[s], PairAudio, PairText)
        n == Len(sessions.sent[s]) + 1
    IN  /\ sessions.pc[s] = "send"
        /\ sessions' = [sessions EXCEPT
                            !.sent[s] = Append(@, frames[n]),
                            !.pc[s] = IF n = Len(frames) THEN "recv" ELSE "send"]
        /\ UNCHANGED <<callvars, conversion, kbvars>>

\* the receive loop of the call s handles a message that arrived on its own
\* connection (speech_service.py:116-131, 240-250)
PairRecv(s) ==
    /\ sessions.pc[s] = "recv"
    /\ Len(sessions.received[s]) < MaxPairMsgs
    /\ \E m \in ServerMessages(sessions.op[s], scale) :
        LET o  == sessions.op[s]
            l  == sessions.locals[Scope(s)]
            r  == Step(o, m, l.result_text, l.audio_data)
            c  == Confidence(o, m, l.confidence)
            other == CHOOSE t \in Sessions : t # s
        IN  sessions' = [sessions EXCEPT
                !.received[s] = Append(@, m),
                !.locals[Scope(s)] = [result_text |-> r.text, confidence |-> c,
                                      audio_data |-> r.audio],
                !.overlap = @ \/ (sessions.pc[other] = "recv"
                                   /\ sessions.received[other] # << >>),
                !.pc[s] = IF r.next = "continue" THEN "recv" ELSE "done",
                !.result[s] = CASE r.next = "continue" -> @
                                [] r.next = "break" ->
                                       ReturnValue(o, r.text, c, r.audio)
                                [] r.next = "raise" -> OnException(o, r.err)]
    /\ UNCHANGED <<callvars, conversion, kbvars>>

\* the connection of the call s is closed by the server: its loop ends and the
\* call returns what it accumulated (speech_service.py:133-136, 252)
PairClose(s) ==
    /\ sessions.pc[s] = "recv"
    /\ LET l == sessions.locals[Scope(s)]
       IN  sessions' = [sessions EXCEPT
               !.pc[s] = "done",
               !.result[s] = ReturnValue(sessions.op[s], l.result_text,
                                         l.confidence, l.audio_data)]
    /\ UNCHANGED <<callvars, conversion, kbvars>>

NextPair ==
    \E s \in Sessions :
        \/ PairEnter(s)
        \/ PairSend(s)
        \/ PairRecv(s)
        \/ PairClose(s)

SpecPair == InitPair /\ [][NextPair]_vars

(***************************************************************************)
(* The container writer called on a raw buffer.                            *)
(***************************************************************************)
MaxRaw == 3
\* byte values of the raw buffers
RawBytes == {0, 1, 255}
\* the raw buffers of at most MaxRaw bytes
RawBuffers == UNION {[1..n -> RawBytes] : n \in 0..MaxRaw}
\* the values settings.AUDIO_SAMPLE_RATE can be configured to
SampleRates == {AUDIO_SAMPLE_RATE, 8000, 0}
\* the writer has not returned yet
NoOutput == [kind |-> "none"]

InitWav ==
    /\ op = AppTts
    /\ cred = CompleteCredential
    /\ scale = "percent"
    /\ caller = "direct"
    /\ content_type = "audio/wav"
    /\ audio_data = << >>
    /\ text = << >>
    /\ ServiceStarts
    /\ KbIdle
    /\ CallStarts
    /\ sessions = NoSessions
    /\ conversion \in {[raw_audio |-> b, sample_rate |-> r, out |-> NoOutput] :
                    b \in RawBuffers, r \in SampleRates}

\* self._convert_to_wav(raw_audio) returns
ConvertToWav ==
    /\ conversion # NoWav
    /\ conversion.out = NoOutput
    /\ conversion' =
           [conversion EXCEPT !.out =
                [kind |-> "bytes",
                 bytes |-> convert_to_wav(conversion.raw_audio,
                                          conversion.sample_rate)]]
    /\ UNCHANGED <<callvars, sessions, kbvars>>

NextWav == ConvertToWav

SpecWav == InitWav /\ [][NextWav]_vars

(***************************************************************************)
(* The speech front end at rest, for the runs of the services behind it.   *)
(***************************************************************************)
SpeechIdle ==
    /\ op = SvcStt /\ cred = CompleteCredential /\ scale = "percent"
    /\ caller = "direct" /\ content_type = "audio/wav"
    /\ audio_data = << >> /\ text = << >>
    /\ ServiceStarts /\ CallStarts
    /\ sessions = NoSessions /\ conversion = NoWav

speechvars == <<callvars, sessions, conversion>>

(***************************************************************************)
(* QwenLLMService.search_knowledge (services/llm_service.py:117-172).      *)
(***************************************************************************)
MaxRows == 2
MaxTopK == 3

\* the sequences over S of at most n elements
SeqsUpTo(S, n) == UNION {[1..k -> S] : k \in 0..n}

\* the rows of a table as the filters see them, in the order of the query:
\* the similarity of the question to the row's question in tenths (a verified
\* pair at the threshold 0.7 or above it, a FAQ at 0.6 or above it), and for a
\* chunk the number of words of the question it contains
TrustedTables == SeqsUpTo({7, 8}, MaxRows)
FaqTables     == SeqsUpTo({6, 7}, MaxRows)
ChunkTables   == SeqsUpTo({0, 1}, MaxRows)

\* the entries appended for the rows whose number exceeds thr, in row order
RECURSIVE Hits(_, _, _, _)
Hits(rows, k, thr, type) ==
    IF k > Len(rows) THEN << >>
    ELSE (IF rows[k] > thr THEN << [type |-> type, row |-> k] >> ELSE << >>)
         \o Hits(rows, k + 1, thr, type)

\* TopK returning the whole list
TopK_All(results, top_k) == results
\* results[:top_k] (llm_service.py:169), top_k >= 0
TopK(results, top_k) == Slice(results, 0, top_k)

SearchStarts(top_k, t, f, c) ==
    [top_k |-> top_k, trusted |-> t, faqs |-> f, chunks |-> c,
     results |-> << >>, queried |-> << >>, pc |-> "trusted",
     returned |-> NoResult]

InitSearch ==
    /\ SpeechIdle
    /\ query = NoQuery
    /\ redis = NoSession /\ adders = NoAdders
    /\ search \in {SearchStarts(k, t, f, c) :
                      k \in 0..MaxTopK, t \in TrustedTables,
                      f \in FaqTables, c \in ChunkTables}

\* llm_service.py:124-137: the verified pairs are queried and filtered
SearchTrusted ==
    /\ search # NoSearch /\ search.pc = "trusted"
    /\ search' = [search EXCEPT
           !.queried = Append(@, "trusted_qa"),
           !.results = @ \o Hits(search.trusted, 1, 7, "trusted_qa"),
           !.pc = "faq"]
    /\ UNCHANGED <<speechvars, query, storevars>>

\* llm_service.py:140-150: the FAQ is queried when fewer than top_k results
\* were found
SearchFaq ==
    /\ search # NoSearch /\ search.pc = "faq"
    /\ search' =
          IF Len(search.results) < search.top_k
          THEN [search EXCEPT
                   !.queried = Append(@, "faq"),
                   !.results = @ \o Hits(search.faqs, 1, 6, "faq"),
                   !.pc = "docs"]
          ELSE [search EXCEPT !.pc = "docs"]
    /\ UNCHANGED <<speechvars, query, storevars>>

\* llm_service.py:124-127, 141: db.query raises; there is no except clause
\* around the first two tiers, `finally` closes the session
SearchQueryFails ==
    /\ search # NoSearch
    /\ \/ search.pc = "trusted"
       \/ search.pc = "faq" /\ Len(search.results) < search.top_k
    /\ search' = [search EXCEPT
           !.queried = Append(@, IF search.pc = "trusted" THEN "trusted_qa" ELSE "faq"),
           !.returned = Raised(<<"OperationalError">>),
           !.pc = "done"]
    /\ UNCHANGED <<speechvars, query, storevars>>

\* llm_service.py:153-165: the chunks are queried when fewer than top_k
\* results were found
SearchDocs ==
    /\ search # NoSearch /\ search.pc = "docs"
    /\ search' =
          IF Len(search.results) < search.top_k
          THEN [search EXCEPT
                   !.queried = Append(@, "document"),
                   !.results = @ \o Hits(search.chunks, 1, 0, "document"),
                   !.pc = "return"]
          ELSE [search EXCEPT !.pc = "return"]
    /\ UNCHANGED <<speechvars, query, storevars>>

\* llm_service.py:166-167: the chunk query raises, the exception is printed
SearchDocsFails ==
    /\ search # NoSearch /\ search.pc = "docs"
    /\ Len(search.results) < search.top_k
    /\ search' = [search EXCEPT !.queried = Append(@, "document"),
                                !.pc = "return"]
    /\ UNCHANGED <<speechvars, query, storevars>>

\* llm_service.py:169
SearchReturn ==
    /\ search # NoSearch /\ search.pc = "return"
    /\ search' = [search EXCEPT
           !.returned = Returned(TopK(search.results, search.top_k)),
           !.pc = "done"]
    /\ UNCHANGED <<speechvars, query, storevars>>

NextSearch ==
    \/ SearchTrusted
    \/ SearchFaq
    \/ SearchQueryFails
    \/ SearchDocs
    \/ SearchDocsFails
    \/ SearchReturn

SpecSearch == InitSearch /\ [][NextSearch]_vars

(***************************************************************************)
(* NLPService.process_query (app/services/nlp_service.py:85-300).          *)
(***************************************************************************)
\* nlp_service.py:155
ValidIntents == {"trusted_qa", "faq", "document_search", "calculation",
                 "policy_inquiry", "procedure_inquiry"}
\* what Generation.call gives for the classification prompt: a category, some
\* other text, or an exception
ClassifyReplies == ValidIntents \cup {"something else", "<raises>"}
\* nlp_service.py:152-167: any other reply, and any exception, is
\* document_search
Intent(reply) == IF reply \in ValidIntents THEN reply ELSE "document_search"
\* nlp_service.py:92-100: the function process_query enters
FirstTier(intent) ==
    CASE intent = "trusted_qa" -> "trusted"
      [] intent = "faq"        -> "faq"
      [] OTHER                 -> "rag"

\* NextTier with a FAQ miss sent back to the verified pairs
NextTier_Back(t) == "trusted"
\* the function a tier hands over to when it has no answer
\* (nlp_service.py:188-192: _query_faq; 211-215: _query_with_rag)
NextTier(t) == IF t = "trusted" THEN "faq" ELSE "rag"

\* answers as sequences of parts; "hello" is a greeting within the first 20
\* characters, "long answer" makes the answer longer than 100 characters
LlmAnswers == {<<"answer">>, <<"hello", "answer">>, <<"long answer">>}
DocSources == {<< >>, <<"doc1">>}
\* nlp_service.py:292-297
RagApology == <<"sorry, nothing found in the knowledge base">>
RagFailure == [answer |-> RagApology, confidence |-> 0, sources |-> << >>]
\* nlp_service.py:283-288: confidence 0.8, in hundredths
RagAnswer(answer, sources) ==
    [answer |-> answer, confidence |-> 80, sources |-> sources]
\* what retrieval and generation do: fail, or give an answer with sources
RagOutcomes ==
    {[ok |-> FALSE]} \cup
    {[ok |-> TRUE, answer |-> a, sources |-> s] : a \in LlmAnswers, s \in DocSources}

\* _post_process_answer (nlp_service.py:300-324); asks: the question contains
\* one of the two question words of line 309
PostProcess(asks, answer, sources) ==
    LET greeted == answer # << >> /\ Head(answer) = "hello"
        a1 == IF ~greeted /\ asks THEN <<"about your question, ">> \o answer
              ELSE answer
        a2 == IF sources # << >> THEN a1 \o <<"sources: ">> \o Slice(sources, 0, 3)
              ELSE a1
        long == \E k \in 1..Len(a2) : a2[k] = "long answer"
    IN  IF long THEN a2 \o <<"brand">> ELSE a2

QueryStarts(asks, reply, t, f, r) ==
    [asks |-> asks, reply |-> reply, trusted_rows |-> t, faq_rows |-> f,
     rag |-> r, intent |-> "", pc |-> "classify", tried |-> << >>,
     answer_result |-> NoResult, returned |-> NoResult]

InitQuery ==
    /\ SpeechIdle
    /\ search = NoSearch
    /\ redis = NoSession /\ adders = NoAdders
    /\ query \in {QueryStarts(a, c, t, f, r) :
                     a \in BOOLEAN, c \in ClassifyReplies,
                     t \in {0, 1}, f \in {0, 1}, r \in RagOutcomes}

\* nlp_service.py:88-100: the intent is classified and the first tier entered
ClassifyIntent ==
    /\ query # NoQuery /\ query.pc = "classify"
    /\ query' = [query EXCEPT !.intent = Intent(query.reply),
                              !.pc = FirstTier(Intent(query.reply))]
    /\ UNCHANGED <<speechvars, search, storevars>>

\* _query_trusted_qa (nlp_service.py:171-192): without a row the FAQ is asked;
\* with a row best_match["similarity"] raises KeyError, since the rows of
\* search_trusted_qa (knowledge_service.py:351-366) have no such column, and
\* the except clause asks the FAQ as well
QueryTrustedQa ==
    /\ query # NoQuery /\ query.pc = "trusted"
    /\ query' = [query EXCEPT !.tried = Append(@, "trusted"),
                              !.pc = NextTier("trusted")]
    /\ UNCHANGED <<speechvars, search, storevars>>

\* _query_faq (nlp_service.py:194-215): the same with the rows of search_faq
\* (knowledge_service.py:327-341)
QueryFaq ==
    /\ query # NoQuery /\ query.pc = "faq"
    /\ query' = [query EXCEPT !.tried = Append(@, "faq"),
                              !.pc = NextTier("faq")]
    /\ UNCHANGED <<speechvars, search, storevars>>

\* _query_with_rag returns an answer (nlp_service.py:219-288)
QueryWithRag ==
    /\ query # NoQuery /\ query.pc = "rag" /\ query.rag.ok
    /\ query' = [query EXCEPT
           !.tried = Append(@, "rag"),
           !.answer_result = RagAnswer(query.rag.answer, query.rag.sources),
           !.pc = "post"]
    /\ UNCHANGED <<speechvars, search, storevars>>

\* _query_with_rag fails (nlp_service.py:290-297)
QueryWithRagFails ==
    /\ query # NoQuery /\ query.pc = "rag" /\ ~query.rag.ok
    /\ query' = [query EXCEPT !.tried = Append(@, "rag"),
                              !.answer_result = RagFailure,
                              !.pc = "post"]
    /\ UNCHANGED <<speechvars, search, storevars>>

\* nlp_service.py:102-115: the answer is post-processed and the record returned
QueryReturn ==
    /\ query # NoQuery /\ query.pc = "post"
    /\ LET r == query.answer_result
       IN  query' = [query EXCEPT
               !.returned = Returned(
                    [answer |-> PostProcess(query.asks, r.answer, r.sources),
                     confidence |-> r.confidence, sources |-> r.sources,
                     intent |-> query.intent]),
               !.pc = "done"]
    /\ UNCHANGED <<speechvars, search, storevars>>

NextQuery ==
    \/ ClassifyIntent
    \/ QueryTrustedQa
    \/ QueryFaq
    \/ QueryWithRag
    \/ QueryWithRagFails
    \/ QueryReturn

SpecQuery == InitQuery /\ [][NextQuery]_vars

(***************************************************************************)
(* SessionService.add_message on one session id                            *)
(* (app/services/session_service.py:48-141).                               *)
(***************************************************************************)
MaxAdds == 22
MaxRaceAdds == 2
MaxFaults == 1
\* the tasks of the event loop that call add_message
Writers == {1, 2}

\* session_service.py:68-76, and the default session of lines 94-102
NewSession == [history |-> << >>, message_count |-> 0]

\* h[-n:] of Python, n > 0
LastN(h, n) == IF Len(h) > n THEN SubSeq(h, Len(h) - n + 1, Len(h)) ELSE h

\* session_service.py:117-123: the message is appended, the counter
\* incremented, and the history cut to its last 20 messages
Appended(session, msg) ==
    [history |-> LastN(Append(session.history, msg), 20),
     message_count |-> session.message_count + 1]

\* the calls of a run: which tasks call, how many calls in all (limit), how
\* many were started, the Redis commands that failed, the messages whose call
\* returned True in the order of the returns (log), and per task the control
\* position, the local `session` and the message of the call
AddersStart(active, limit, log) ==
    [active |-> active, limit |-> limit, started |-> 0, faults |-> << >>,
     log |-> log,
     task |-> [w \in Writers |->
                  [pc |-> "idle", session |-> NewSession, msg |-> 0]]]

\* one task calling add_message again and again on a session not yet stored
InitSession ==
    /\ SpeechIdle
    /\ search = NoSearch /\ query = NoQuery
    /\ redis = NoSession
    /\ adders = AddersStart({1}, MaxAdds, << >>)

\* two tasks calling add_message on a session that is not stored yet, is
\* stored empty, or holds one message
InitRace ==
    /\ SpeechIdle
    /\ search = NoSearch /\ query = NoQuery
    /\ \/ redis = NoSession /\ adders = AddersStart(Writers, MaxRaceAdds, << >>)
       \/ redis = NewSession /\ adders = AddersStart(Writers, MaxRaceAdds, << >>)
       \/ /\ redis = Appended(NewSession, 100)
          /\ adders = AddersStart(Writers, MaxRaceAdds, <<100>>)

\* add_message is called (session_service.py:105-107)
AddMessage(w) ==
    /\ adders # NoAdders /\ w \in adders.active
    /\ adders.task[w].pc = "idle"
    /\ adders.started < adders.limit
    /\ adders' = [adders EXCEPT !.started = @ + 1,
                                !.task[w].msg = adders.started + 1,
                                !.task[w].pc = "get"]
    /\ UNCHANGED <<speechvars, search, query, redis>>

\* get_or_create_session: redis.get and json.loads
\* (session_service.py:55-59, 67-76)
RedisGet(w) ==
    /\ adders # NoAdders /\ adders.task[w].pc = "get"
    /\ adders' = [adders EXCEPT
           !.task[w].session = IF redis = NoSession THEN NewSession ELSE redis,
           !.task[w].pc = "setex"]
    /\ UNCHANGED <<speechvars, search, query, redis>>

\* redis.get raises: the except clause returns the default session
\* (session_service.py:92-102), add_message appends to it (117-123)
RedisGetFails(w) ==
    /\ adders # NoAdders /\ adders.task[w].pc = "get"
    /\ Len(adders.faults) < MaxFaults
    /\ adders' = [adders EXCEPT
           !.faults = Append(@, "get"),
           !.task[w].session = Appended(NewSession, adders.task[w].msg),
           !.task[w].pc = "put"]
    /\ UNCHANGED <<speechvars, search, query, redis>>

\* get_or_create_session: setex of the session read or created
\* (session_service.py:62-66, 78-82); then add_message appends (117-123)
SetexSession(w) ==
    /\ adders # NoAdders /\ adders.task[w].pc = "setex"
    /\ redis' = adders.task[w].session
    /\ adders' = [adders EXCEPT
           !.task[w].session = Appended(@, adders.task[w].msg),
           !.task[w].pc = "put"]
    /\ UNCHANGED <<speechvars, search, query>>

\* that setex raises: the default session is returned (92-102)
SetexSessionFails(w) ==
    /\ adders # NoAdders /\ adders.task[w].pc = "setex"
    /\ Len(adders.faults) < MaxFaults
    /\ adders' = [adders EXCEPT
           !.faults = Append(@, "setex"),
           !.task[w].session = Appended(NewSession, adders.task[w].msg),
           !.task[w].pc = "put"]
    /\ UNCHANGED <<speechvars, search, query, redis>>

\* add_message: setex of the updated session, return True
\* (session_service.py:126-136)
PutSession(w) ==
    /\ adders # NoAdders /\ adders.task[w].pc = "put"
    /\ redis' = adders.task[w].session
    /\ adders' = [adders EXCEPT !.log = Append(@, adders.task[w].msg),
                                !.task[w].pc = "idle"]
    /\ UNCHANGED <<speechvars, search, query>>

\* that setex raises: return False (session_service.py:138-140)
PutSessionFails(w) ==
    /\ adders # NoAdders /\ adders.task[w].pc = "put"
    /\ Len(adders.faults) < MaxFaults
    /\ adders' = [adders EXCEPT !.faults = Append(@, "setex"), !.task[w].pc = "idle"]
    /\ UNCHANGED <<speechvars, search, query, redis>>

NextStore ==
    \E w \in Writers :
        \/ AddMessage(w)
        \/ RedisGet(w)
        \/ RedisGetFails(w)
        \/ SetexSession(w)
        \/ SetexSessionFails(w)
        \/ PutSession(w)
        \/ PutSessionFails(w)

SpecSession == InitSession /\ [][NextStore]_vars
SpecRace == InitRace /\ [][NextStore]_vars

(***************************************************************************)
(* Properties.                                                             *)
(***************************************************************************)
\* the chunk loop of stream_speech_to_text ran to its end without an exception
StreamCompleted ==
    /\ op = SvcStreamStt /\ result.kind = "return"
    /\ \A k \in 1..Len(yielded) : yielded[k].kind # "error"

\* the positions of the frames sent with wire status st
FramesWith(st) == {k \in 1..Len(sent) : sent[k].status = st}

\* the server messages up to and including the first with data.status = 2
RECURSIVE UpToDone(_)
UpToDone(ms) ==
    IF ms = << >> THEN << >>
    ELSE IF Head(ms).hasData /\ Head(ms).status = SERVER_DONE THEN << Head(ms) >>
    ELSE << Head(ms) >> \o UpToDone(Tail(ms))

\* the words of the messages ms, joined in arrival order
Texts(ms) == Flatten([k \in 1..Len(ms) |-> MsgText(ms[k])])
\* the PCM chunks of the messages ms, joined in arrival order
Pcm(ms) == Flatten([k \in 1..Len(ms) |-> ms[k].pcm])

\* the server has sent a message with completion status 2 on this session
ServerSignalledDone ==
    \E k \in 1..Len(received) : received[k].hasData /\ received[k].status = SERVER_DONE

\* C1: in a streaming ASR session whose chunk loop ran to its end, exactly one
\* frame sent carries wire status 0 (START) and exactly one carries wire
\* status 2 (END).
C1_OneStartOneEnd ==
    StreamCompleted =>
        /\ Cardinality(FramesWith(STATUS_START)) = 1
        /\ Cardinality(FramesWith(STATUS_END)) = 1

\* C2: in every ASR session a frame with status END is the last frame sent:
\* at no time does the connection carry a frame after an END frame.
C2_NoFrameAfterEnd ==
    op \in AsrOps =>
        \A k \in 1..Len(sent) : sent[k].status = STATUS_END => k = Len(sent)

\* C2 witness: a streaming session sent START, CONTINUE, END and went on to its end
C2_Witness ==
    /\ op = SvcStreamStt /\ pc = "done"
    /\ Len(sent) = 3 /\ sent[3].status = STATUS_END /\ Len(received) = 3

\* C3: in streaming ASR an update is tagged final only if the server has
\* already sent a message with completion status 2 on the session.
C3_FinalOnlyAfterServerDone ==
    op = SvcStreamStt =>
        \A k \in 1..Len(yielded) :
            (yielded[k].kind = "text" /\ yielded[k].final) => ServerSignalledDone

\* the error text e carries the server's message text t
Carries(e, t) == \E k \in 1..Len(e) : e[k] = t

\* the caller of the service function has been given an error carrying t
CallerGotError(t) ==
    CASE result.kind = "raise" -> Carries(result.err, t)
      [] result.kind = "return" /\ op \in {AppAsr, AppTts} ->
            ~result.value.success /\ Carries(result.value.error, t)
      [] result.kind = "return" /\ op = SvcStreamStt ->
            \E k \in 1..Len(yielded) :
                yielded[k].kind = "error" /\ Carries(yielded[k].error, t)
      [] OTHER -> FALSE

\* C4: when the first server message has a non-zero code, the session has
\* ended in failure and the caller has an error carrying the server's message
\* text, at every entry point.
C4_ErrorCodeIsFatal ==
    (received # << >> /\ received[1].valid /\ received[1].code # 0) =>
        CallerGotError(received[1].message)

\* the session failed: exception, failure record or error update
SessionFailed ==
    \/ result.kind = "raise"
    \/ result.kind = "return" /\ op \in {AppAsr, AppTts} /\ ~result.value.success
    \/ op = SvcStreamStt /\ \E k \in 1..Len(yielded) : yielded[k].kind = "error"

\* the HTTP client can tell that the request failed
ResponseIsFailure ==
    \/ response.status >= 400
    \/ op = SvcStreamStt /\ response.status = 200
         /\ \E k \in 1..Len(response.events) : response.events[k].kind = "error"
    \/ op = SvcStreamTts /\ response.status = 200 /\ response.aborted

\* C5: whenever the session behind an HTTP request failed, the HTTP client
\* observes a failure, never a success with an empty or default result.
C5_FailureSurfaces ==
    (pc = "done" /\ caller = "http" /\ SessionFailed) => ResponseIsFailure

\* C6: in streaming ASR the text of the latest update handed to the caller is
\* the concatenation, in arrival order, of the text of all fragments received
\* so far.
C6_RunningConcat ==
    (op = SvcStreamStt /\ yielded # << >> /\ yielded[Len(yielded)].kind = "text") =>
        yielded[Len(yielded)].text = Texts(received)

\* a one-shot ASR call returned a text
AsrReturned ==
    /\ op \in OneShotAsrOps /\ result.kind = "return"
    /\ op = AppAsr => result.value.success

ReturnedText == IF op = VoiceStt THEN result.value ELSE result.value.text

\* C7 as claimed: in all three one-shot ASR variants the text returned is
\* exactly the concatenation of the words of the messages up to and including
\* the status-2 message, untrimmed.
C7_ExactConcat ==
    AsrReturned => ReturnedText = Texts(UpToDone(received))

\* C7 as amended: the text returned is the concatenation, in arrival order and
\* without separator, of the words of every message the session consumed (up
\* to and including the status-2 message in SpeechService.speech_to_text and
\* recognize_speech, up to the close of the connection in
\* IFlytekVoiceService.speech_to_text); SpeechService.speech_to_text returns
\* it untrimmed, the other two with leading and trailing whitespace stripped.
C7_ConcatThenStrip ==
    AsrReturned =>
        ReturnedText =
            CASE op = SvcStt   -> Texts(UpToDone(received))
              [] op = AppAsr   -> strip(Texts(UpToDone(received)))
              [] op = VoiceStt -> strip(Texts(received))

\* C7 witness: recognize_speech returned the words of two messages, and the
\* trimming removed something
C7_Witness ==
    /\ AsrReturned /\ op = AppAsr /\ Len(received) >= 2
    /\ Texts(received) # << >>
    /\ ReturnedText # << >>
    /\ ReturnedText # Texts(received)

\* C8: the audio of a TTS session is the concatenation, in arrival order, of
\* the decoded data.audio chunks of the messages up to and including the
\* status-2 message: the buffer text_to_speech returns, the chunks
\* stream_text_to_speech has yielded, and the PCM payload of the container
\* synthesize_speech returns.
C8_AudioIsConcat ==
    /\ (op = SvcTts /\ result.kind = "return") =>
            result.value = Pcm(UpToDone(received))
    /\ op = SvcStreamTts =>
            /\ Flatten(yielded) = Pcm(UpToDone(received))
            /\ Len(yielded) =
                 Cardinality({k \in 1..Len(UpToDone(received)) : received[k].hasAudio})
    /\ (op = AppTts /\ result.kind = "return" /\ result.value.success) =>
            LET wav == B64Decode(result.value.audio_data)
            IN  SubSeq(wav, 45, Len(wav)) = Pcm(UpToDone(received))

\* C8 witness: text_to_speech returned after three messages with audio, not
\* all the same chunk
C8_Witness ==
    /\ op = SvcTts /\ result.kind = "return" /\ Len(received) = 3
    /\ \A k \in 1..3 : received[k].hasAudio
    /\ received[1].pcm # received[2].pcm
    /\ Len(result.value) >= 5

\* the payloads of the frames sent, decoded
DecodedPayloads == [k \in 1..Len(sent) |-> B64Decode(sent[k].payload)]

\* C9: the payloads of the frames stream_speech_to_text has sent, concatenated
\* in the order sent, are the bytes of the buffer from its start, each frame
\* holds the bytes at its offset, the offsets increase strictly, and once the
\* loop has run to its end the concatenation is the whole buffer.  (The frames
\* sent change only when a frame is sent, so the payloads are compared right
\* after every send and at the end of the loop.)
C9_PayloadsReproduceBuffer ==
    op = SvcStreamStt =>
        /\ \A k \in 2..Len(sent) : sent[k - 1].offset < sent[k].offset
        /\ (pc = "stream_recv" \/ StreamCompleted) =>
            LET dec == DecodedPayloads
                cat == Flatten(dec)
            IN  /\ Len(cat) <= Len(audio_data)
                /\ cat = SubSeq(audio_data, 1, Len(cat))
                /\ \A k \in 1..Len(sent) :
                     dec[k] = SubSeq(audio_data, sent[k].offset + 1,
                                     sent[k].offset + Len(dec[k]))
                /\ StreamCompleted => cat = audio_data

\* C9 witness: a 3000-byte buffer went out in three frames
C9_Witness ==
    /\ StreamCompleted /\ Len(audio_data) = 3000 /\ Len(sent) = 3
    /\ Flatten(DecodedPayloads) = audio_data

\* C10: a buffer of n > 0 bytes goes out in ceil(n / 1280) frames of at most
\* 1280 payload bytes, the first tagged START, the last tagged END, the
\* frames between them tagged CONTINUE.
C10_FrameTags ==
    (StreamCompleted /\ Len(audio_data) > 0) =>
        /\ Len(sent) = (Len(audio_data) + chunk_size - 1) \div chunk_size
        /\ \A k \in 1..Len(sent) : Len(DecodedPayloads[k]) <= chunk_size
        /\ sent[1].status = STATUS_START
        /\ sent[Len(sent)].status = STATUS_END
        /\ \A k \in 2..(Len(sent) - 1) : sent[k].status = STATUS_CONTINUE

\* C11: when a credential field (app id, api key, api secret) is empty, no
\* connection attempt is ever made with a signed URL, and the operation ends
\* in failure.
C11_EmptyCredentialFailsFast ==
    HasEmptyField(cred) =>
        /\ attempts = << >>
        /\ result # NoResult => SessionFailed

\* C12: in every connection attempt the host and the path written into the
\* signing string, and the `host` query parameter, are the host and the path
\* of the endpoint URL the attempt connects to.
C12_SignedHostAndPath ==
    \A k \in 1..Len(attempts) :
        LET u == attempts[k].url
        IN  /\ u.sig_host = u.url.host
            /\ u.sig_path = u.url.path
            /\ u.host = u.url.host

\* C13: every connection attempt is made with a signed URL derived with the
\* time of the attempt, for the endpoint of the operation that makes it, and
\* no derivation serves two attempts: no signed URL is kept and used again by
\* a later operation.
C13_FreshUrlPerAttempt ==
    /\ \A k \in 1..Len(attempts) :
        /\ attempts[k].url # NoUrl
        /\ attempts[k].url.date = attempts[k].at
    /\ \A j, k \in 1..Len(attempts) :
        attempts[j].url.derived = attempts[k].url.derived => j = k
    /\ pc \in {"handler", "call"} => auth_url = NoUrl
    /\ (pc \notin {"handler", "call"} /\ attempts # << >> /\ conn # "none") =>
        /\ attempts[Len(attempts)].url = auth_url
        /\ auth_url.url = BaseUrl(op)

\* C13 witness: a second operation connected one second after the first, each
\* with its own URL
C13_Witness ==
    /\ calls = 2 /\ Len(attempts) = 2 /\ conn = "open"
    /\ attempts[1].at = 0 /\ attempts[2].at = 1
    /\ attempts[1].url # attempts[2].url

\* C14: when a session has ended, on any exit path (return at status 2 or at
\* the close of the server, server error code, transport error, undecodable
\* message, the consumer closing a generator), its connection is not open; a
\* connection is open only while the session that opened it runs.
C14_ConnectionClosedOnExit ==
    /\ result # NoResult => conn # "open"
    /\ pc \in {"respond", "done"} => conn # "open"
    /\ conn = "open" => pc \in {"send", "recv", "loop", "stream_recv", "yield"}

\* C14 witness: the consumer abandoned a stream whose connection had been
\* opened and had delivered a value, and the connection is closed
C14_Witness ==
    /\ result = GeneratorClosed /\ conn = "closed"
    /\ yielded # << >> /\ received # << >> /\ sent # << >>

\* the state of the session, read off the control position of the call:
\* INIT before the URL is derived, CONNECTING until the connection is made,
\* OPEN until the first frame is sent, EXCHANGING while the last frame sent is
\* not END, AWAITING_FINAL once it is, COMPLETED when the call returned
\* normally, FAILED when it ended in an error or was closed by its consumer
SessionState ==
    CASE SessionFailed \/ result = GeneratorClosed -> "FAILED"
      [] result # NoResult          -> "COMPLETED"
      [] pc \in {"handler", "call"} -> "INIT"
      [] pc = "connect"             -> "CONNECTING"
      [] sent = << >>               -> "OPEN"
      [] sent[Len(sent)].status = STATUS_END -> "AWAITING_FINAL"
      [] OTHER                      -> "EXCHANGING"

\* the position of a state on the path INIT ... COMPLETED
Rank(st) ==
    CASE st = "INIT" -> 0
      [] st = "CONNECTING" -> 1
      [] st = "OPEN" -> 2
      [] st = "EXCHANGING" -> 3
      [] st = "AWAITING_FINAL" -> 4
      [] st = "COMPLETED" -> 5
      [] st = "FAILED" -> 5

\* C15: every step of a session keeps its state or moves it forward along
\* INIT, CONNECTING, OPEN, EXCHANGING, AWAITING_FINAL, COMPLETED, or moves it
\* from a non-terminal state to FAILED; a step taken in COMPLETED or FAILED
\* changes neither the state nor the frames sent, the messages received, the
\* values yielded or the result.
C15_StateMonotonic ==
    [][ /\ Rank(SessionState') >= Rank(SessionState)
        /\ SessionState \in {"COMPLETED", "FAILED"} =>
              /\ SessionState' = SessionState
              /\ UNCHANGED <<sent, received, yielded, result, conn>> ]_vars

\* C15 witness: a streaming session went through all three tags and completed
\* after the server's messages
C15_Witness ==
    /\ SessionState = "COMPLETED" /\ op = SvcStreamStt
    /\ Len(sent) = 3 /\ Len(received) = 3 /\ pc = "done"

\* the server stayed silent for the whole streaming session: every chunk of a
\* non-empty buffer was sent, every wait for a message ran into its timeout,
\* and the session is over
SilentSessionOver ==
    /\ op = SvcStreamStt /\ result # NoResult
    /\ received = << >> /\ i > 0 /\ i >= Len(audio_data)

\* C16: when the server has sent no message during a whole streaming ASR
\* session, the session has ended in failure and the caller has been given a
\* timeout error.
C16_SilenceTimesOut ==
    SilentSessionOver =>
        /\ SessionFailed
        /\ \E k \in 1..Len(yielded) :
              yielded[k].kind = "error" /\ Carries(yielded[k].error, "TimeoutError")

\* C20: in a streaming ASR session the send path never waits for the receive
\* path: the session is never parked in the wait for a server message while a
\* chunk of the buffer is still unsent.
C20_SendNeverWaits ==
    ~(op = SvcStreamStt /\ pc = "stream_recv" /\ i + chunk_size < Len(audio_data))

\* the confidence of a word on the 0..1 scale, from the number the server
\* stated on the scale sc
OnUnitScale(n, sc) == IF sc = "unit" THEN n ELSE n \div 100
\* the per-word confidences of the messages ms on the 0..1 scale, in order
RECURSIVE WordConfidences(_, _)
WordConfidences(ms, sc) ==
    IF ms = << >> THEN << >>
    ELSE [k \in 1..Len(Flatten(Head(ms).wconf)) |->
              OnUnitScale(Flatten(Head(ms).wconf)[k], sc)]
         \o WordConfidences(Tail(ms), sc)
\* a recognition ended with a record that reports a confidence
ReportsConfidence ==
    /\ op \in {SvcStt, AppAsr}
    /\ result.kind = "return"
    /\ "confidence" \in DOMAIN result.value

\* C17: the confidence a recognition reports is the maximum, over all words
\* of all messages received in the session, of the per-word confidence on the
\* 0..1 scale, and so lies between 0 and 1.
C17_ConfidenceIsMaxOnUnitScale ==
    ReportsConfidence =>
        /\ result.value.confidence = MaxOf(WordConfidences(received, scale))
        /\ result.value.confidence >= 0
        /\ result.value.confidence <= Hundredths(100)

\* what one call of the entry point o returns when it runs on its own and the
\* messages ms arrive on its connection, starting from the locals rt, c, acc
RECURSIVE Alone(_, _, _, _, _)
Alone(o, ms, rt, c, acc) ==
    IF ms = << >> THEN ReturnValue(o, rt, c, acc)
    ELSE LET r  == Step(o, Head(ms), rt, acc)
             c2 == Confidence(o, Head(ms), c)
         IN  CASE r.next = "raise" -> OnException(o, r.err)
               [] r.next = "break" -> ReturnValue(o, r.text, c2, r.audio)
               [] OTHER            -> Alone(o, Tail(ms), r.text, c2, r.audio)

UnLE16(b, k) == b[k] + 256 * b[k + 1]
UnLE32(b, k) == b[k] + 256 * b[k + 1] + 65536 * b[k + 2] + 16777216 * b[k + 3]
\* a standard reader of the container (wave.open(..., 'rb')): the RIFF/WAVE
\* magic, the fmt chunk, and as many whole frames as the data chunk holds
NotAContainer == [kind |-> "error"]
ParseWav(b) ==
    IF Len(b) < 44 \/ SubSeq(b, 1, 4) # <<82, 73, 70, 70>>
                  \/ SubSeq(b, 9, 12) # <<87, 65, 86, 69>>
    THEN NotAContainer
    ELSE LET framesize == UnLE16(b, 33)
             nframes == UnLE32(b, 41) \div framesize
         IN  [kind |-> "wav",
              nchannels |-> UnLE16(b, 23),
              bits |-> UnLE16(b, 35),
              framerate |-> UnLE32(b, 25),
              frames |-> SubSeq(b, 45, 44 + nframes * framesize)]

\* C19: the container writer turns any raw buffer into a header declaring 1
\* channel, 16 bits per sample and the configured sample rate followed by the
\* unmodified input, so that parsing the output gives back those parameters
\* and the input buffer; it never returns anything else.
C19_WavRoundTrip ==
    (conversion # NoWav /\ conversion.out # NoOutput) =>
        /\ conversion.out.bytes =
               WavHeader(Len(conversion.raw_audio), 1, 2, conversion.sample_rate)
               \o conversion.raw_audio
        /\ ParseWav(conversion.out.bytes) =
               [kind |-> "wav", nchannels |-> 1, bits |-> 16,
                framerate |-> conversion.sample_rate, frames |-> conversion.raw_audio]

\* the positions of the server messages received that carry text
TextMessages ==
    {k \in 1..Len(received) :
        received[k].valid /\ received[k].hasData /\ received[k].hasResult
        /\ MsgText(received[k]) # << >>}
\* the positions of the text updates handed to the caller
TextUpdates == {k \in 1..Len(yielded) : yielded[k].kind = "text"}

\* C21: the sequence of updates of a streaming ASR session in which the server
\* has answered ends only when the session is COMPLETED (the server's status 2
\* was observed) or FAILED, and every server message carrying text has
\* produced exactly one update.
C21_EndsOnlyWhenCompletedOrFailed ==
    op = SvcStreamStt =>
        /\ (result = GeneratorEnd /\ received # << >>) =>
              (ServerSignalledDone \/ SessionFailed)
        /\ Cardinality(TextUpdates) = Cardinality(TextMessages)

\* the last message the session consumed is a success message with
\* data.status = 2, and the session is not suspended at a yield
CompletionObserved ==
    /\ received # << >>
    /\ LET m == received[Len(received)]
       IN  m.valid /\ m.code = 0 /\ Done(m)
    /\ pc # "yield"

\* C22: in every ASR and TTS variant, once the session has consumed a success
\* message of the server whose data.status is 2 it is over and has returned
\* its result: it waits for no further message and not for the close of the
\* connection.
C22_Status2Completes ==
    CompletionObserved => (result.kind = "return" /\ ~SessionFailed)

\* a frame with status END has been sent on the connection
EndFrameSent == FramesWith(STATUS_END) # {}

\* C23: every ASR session that does not fail sends a frame with status END
\* before it waits for the final result: a one-shot call is in its receive loop
\* only after an END frame, and a streaming call whose chunk loop ran to its
\* end has sent one, for every input buffer.
C23_EndFrameBeforeFinalWait ==
    /\ (op \in OneShotAsrOps /\ pc = "recv") => EndFrameSent
    /\ StreamCompleted => EndFrameSent

\* the wait for a server message ends without a message and without the
\* connection being reported closed: the 1-second timeout of line 183
IdleTimeoutStep ==
    /\ op = SvcStreamStt /\ pc = "stream_recv"
    /\ received' = received
    /\ ~(\E k \in 1..Len(yielded') :
            yielded'[k].kind = "error" /\ Carries(yielded'[k].error, "ConnectionClosed"))

\* a streaming session ran to its end and at least one of its waits timed out:
\* it consumed fewer messages than it sent frames
CompletedAfterTimeout == StreamCompleted /\ Len(received) < Len(sent)

\* C24: in streaming ASR an idle-receive timeout does not fail the session: the
\* step keeps the connection open, hands no update and no error to the caller
\* and moves on to the next chunk, and a session that ran to its end after a
\* timeout has sent every frame of the buffer, the last one tagged END.
C24_TimeoutNotFatal ==
    /\ [][IdleTimeoutStep =>
            /\ pc' = "loop" /\ i' = i + chunk_size
            /\ conn' = "open" /\ result' = NoResult
            /\ yielded' = yielded /\ sent' = sent]_vars
    /\ [](CompletedAfterTimeout =>
            /\ Len(sent) = (Len(audio_data) + chunk_size - 1) \div chunk_size
            /\ sent[Len(sent)].status = STATUS_END
            /\ Flatten(DecodedPayloads) = audio_data)

\* C24 witness: of the three waits of a 3000-byte session exactly one timed
\* out, and the session ran to its end without an error
C24_Witness ==
    /\ StreamCompleted /\ Len(audio_data) = 3000
    /\ Len(sent) = 3 /\ Len(received) = 2
    /\ sent[3].status = STATUS_END

WavLabelledBody ==
    IF op = SvcTts THEN response.body ELSE Flatten(response.chunks)

\* the TTS endpoint has delivered audio labelled audio/wav
WavDelivered ==
    /\ op \in {SvcTts, SvcStreamTts} /\ caller = "http" /\ pc = "done"
    /\ response.status = 200
    /\ WavLabelledBody # << >>

\* C26: every audio buffer the TTS HTTP endpoints deliver under the media type
\* audio/wav went through the container writer: it is a header followed by the
\* PCM of the session, never the raw PCM.
C26_WavLabelMeansContainer ==
    WavDelivered =>
        /\ ParseWav(WavLabelledBody) # NotAContainer
        /\ WavLabelledBody =
              convert_to_wav(Pcm(UpToDone(received)), AUDIO_SAMPLE_RATE)

\* the rank of a result in the fallback chain
TierRank(type) ==
    CASE type = "trusted_qa" -> 1 [] type = "faq" -> 2 [] type = "document" -> 3

\* the tier t was queried
Queried(t) == \E k \in 1..Len(search.queried) : search.queried[k] = t

\* C27: search_knowledge returns at most top_k results ordered by tier (every
\* verified pair before every FAQ entry, every FAQ entry before every
\* document), and a lower tier is queried only when the tiers above it
\* together produced fewer than top_k results.
C27_TieredTopK ==
    search # NoSearch =>
        LET nT == Len(Hits(search.trusted, 1, 7, "trusted_qa"))
            nF == Len(Hits(search.faqs, 1, 6, "faq"))
        IN  /\ Queried("faq") => nT < search.top_k
            /\ Queried("document") =>
                  (nT + (IF Queried("faq") THEN nF ELSE 0)) < search.top_k
            /\ search.returned.kind = "return" =>
                  LET v == search.returned.value
                  IN  /\ Len(v) <= search.top_k
                      /\ \A j, k \in 1..Len(v) :
                            j < k => TierRank(v[j].type) <= TierRank(v[k].type)

\* C27 witness: two verified pairs and two FAQ entries matched, three results
\* were asked for, and the documents were not queried
C27_Witness ==
    /\ search # NoSearch /\ search.returned.kind = "return"
    /\ search.top_k = 3 /\ Len(search.results) = 4
    /\ Len(search.returned.value) = 3
    /\ search.returned.value[3].type = "faq"
    /\ search.queried = <<"trusted_qa", "faq">>

\* the position of a tier in the chain
ChainRank(t) == CASE t = "trusted" -> 1 [] t = "faq" -> 2 [] t = "rag" -> 3

\* the tiers of a query are tried one after the other down the chain, from
\* the tier of the intent, and the call never raises
ForwardOnly ==
    /\ \A k \in 1..Len(query.tried) :
          ChainRank(query.tried[k]) =
              ChainRank(FirstTier(Intent(query.reply))) + k - 1
    /\ query.returned.kind # "raise"
    /\ query.pc = "done" =>
          /\ query.returned.kind = "return"
          /\ query.tried # << >>
          /\ query.tried[Len(query.tried)] = "rag"

\* C28 as claimed: process_query ends with an answer record and never raises,
\* the tiers are tried in forward order from the tier of the intent, and when
\* the last tier fails the answer is the fixed apology with confidence 0.
C28_ApologyVerbatim ==
    query # NoQuery =>
        /\ ForwardOnly
        /\ (query.pc = "done" /\ ~query.rag.ok) =>
              /\ query.returned.value.answer = RagApology
              /\ query.returned.value.confidence = 0

\* C28 as amended: process_query ends with an answer record and never raises,
\* the tiers are tried in forward order from the tier of the intent, and when
\* the last tier fails the record has confidence 0, no sources, and as answer
\* the fixed apology as post-processing leaves it: with the opening "about
\* your question" before it when the question contains one of the question
\* words, verbatim otherwise.
C28_ApologyPostProcessed ==
    query # NoQuery =>
        /\ ForwardOnly
        /\ (query.pc = "done" /\ ~query.rag.ok) =>
              /\ query.returned.value.answer =
                    (IF query.asks THEN <<"about your question, ">> ELSE << >>)
                    \o RagApology
              /\ query.returned.value.confidence = 0
              /\ query.returned.value.sources = << >>

\* C28 witness: a query classified trusted_qa found a verified pair and a FAQ
\* entry, went down all three tiers, retrieval failed, and the apology came
\* back with the opening before it
C28_Witness ==
    /\ query # NoQuery /\ query.pc = "done"
    /\ query.intent = "trusted_qa" /\ query.trusted_rows = 1 /\ query.faq_rows = 1
    /\ query.tried = <<"trusted", "faq", "rag">>
    /\ ~query.rag.ok /\ query.asks
    /\ query.returned.value.answer # RagApology

\* no call of add_message is in progress
NoCallInProgress == \A w \in Writers : adders.task[w].pc = "idle"

\* C29: when two add_message calls for one session id interleave, no Redis
\* command fails and both return True, the session stored afterwards holds
\* both messages in its history and its message_count has grown by 2.
C29_NoLostUpdate ==
    (/\ adders # NoAdders /\ adders.active = Writers
     /\ adders.faults = << >> /\ adders.started = 2 /\ NoCallInProgress) =>
        /\ redis # NoSession
        /\ \A k \in 1..Len(adders.log) :
              \E j \in 1..Len(redis.history) : redis.history[j] = adders.log[k]
        /\ redis.message_count = Len(adders.log)

\* C30: after any sequence of add_message calls on a session the stored
\* history holds at most 20 messages, they are the messages added last in the
\* order added, and message_count is the number of calls that returned True
\* since the session was created.
C30_LastTwentyAndTotal ==
    (/\ adders # NoAdders /\ adders.active = {1}
     /\ NoCallInProgress /\ adders.log # << >>) =>
        /\ redis # NoSession
        /\ Len(redis.history) <= 20
        /\ redis.history = LastN(adders.log, 20)
        /\ redis.message_count = Len(adders.log)

====
